---- MODULE Spec2Model ----
(***************************************************************************)
(* Model of src/process_intel_data.py: the readiness gates, the line       *)
(* parser / batcher generator process_intel_data and the dual-table loader *)
(* loop of main.                                                           *)
(*                                                                         *)
(* Text is modelled as sequences of one-character strings, so that         *)
(* str.split, str.startswith, int(), float() and datetime.strptime are     *)
(* computed from the characters of the line.  An int is its sign and its   *)
(* decimal digits.  A float is the double nearest to the decimal of the    *)
(* token, written as the shortest decimal that rounds to it (what repr     *)
(* prints), or nan, or +-inf.                                              *)
(***************************************************************************)
EXTENDS Integers, Sequences, FiniteSets, TLC

(***************************************************************************)
(* Characters                                                              *)
(*                                                                         *)
(* A printable ASCII character is the one-character string; tab, line     *)
(* feed, form feed and carriage return are "\t", "\n", "\f", "\r".  Every  *)
(* other character is written by its code point, "U+FF13" for the          *)
(* fullwidth digit three.                                                  *)
(***************************************************************************)
AsciiDigits == {"0", "1", "2", "3", "4", "5", "6", "7", "8", "9"}

\* the decimal digits (category Nd) beyond ASCII, Unicode 14: each tuple is
\* the run of the digits 0 .. 9 of one script
NdRuns ==
    { <<"U+0660", "U+0661", "U+0662", "U+0663", "U+0664",
        "U+0665", "U+0666", "U+0667", "U+0668", "U+0669">>,
      <<"U+06F0", "U+06F1", "U+06F2", "U+06F3", "U+06F4",
        "U+06F5", "U+06F6", "U+06F7", "U+06F8", "U+06F9">>,
      <<"U+07C0", "U+07C1", "U+07C2", "U+07C3", "U+07C4",
        "U+07C5", "U+07C6", "U+07C7", "U+07C8", "U+07C9">>,
      <<"U+0966", "U+0967", "U+0968", "U+0969", "U+096A",
        "U+096B", "U+096C", "U+096D", "U+096E", "U+096F">>,
      <<"U+09E6", "U+09E7", "U+09E8", "U+09E9", "U+09EA",
        "U+09EB", "U+09EC", "U+09ED", "U+09EE", "U+09EF">>,
      <<"U+0A66", "U+0A67", "U+0A68", "U+0A69", "U+0A6A",
        "U+0A6B", "U+0A6C", "U+0A6D", "U+0A6E", "U+0A6F">>,
      <<"U+0AE6", "U+0AE7", "U+0AE8", "U+0AE9", "U+0AEA",
        "U+0AEB", "U+0AEC", "U+0AED", "U+0AEE", "U+0AEF">>,
      <<"U+0B66", "U+0B67", "U+0B68", "U+0B69", "U+0B6A",
        "U+0B6B", "U+0B6C", "U+0B6D", "U+0B6E", "U+0B6F">>,
      <<"U+0BE6", "U+0BE7", "U+0BE8", "U+0BE9", "U+0BEA",
        "U+0BEB", "U+0BEC", "U+0BED", "U+0BEE", "U+0BEF">>,
      <<"U+0C66", "U+0C67", "U+0C68", "U+0C69", "U+0C6A",
        "U+0C6B", "U+0C6C", "U+0C6D", "U+0C6E", "U+0C6F">>,
      <<"U+0CE6", "U+0CE7", "U+0CE8", "U+0CE9", "U+0CEA",
        "U+0CEB", "U+0CEC", "U+0CED", "U+0CEE", "U+0CEF">>,
      <<"U+0D66", "U+0D67", "U+0D68", "U+0D69", "U+0D6A",
        "U+0D6B", "U+0D6C", "U+0D6D", "U+0D6E", "U+0D6F">>,
      <<"U+0DE6", "U+0DE7", "U+0DE8", "U+0DE9", "U+0DEA",
        "U+0DEB", "U+0DEC", "U+0DED", "U+0DEE", "U+0DEF">>,
      <<"U+0E50", "U+0E51", "U+0E52", "U+0E53", "U+0E54",
        "U+0E55", "U+0E56", "U+0E57", "U+0E58", "U+0E59">>,
      <<"U+0ED0", "U+0ED1", "U+0ED2", "U+0ED3", "U+0ED4",
        "U+0ED5", "U+0ED6", "U+0ED7", "U+0ED8", "U+0ED9">>,
      <<"U+0F20", "U+0F21", "U+0F22", "U+0F23", "U+0F24",
        "U+0F25", "U+0F26", "U+0F27", "U+0F28", "U+0F29">>,
      <<"U+1040", "U+1041", "U+1042", "U+1043", "U+1044",
        "U+1045", "U+1046", "U+1047", "U+1048", "U+1049">>,
      <<"U+1090", "U+1091", "U+1092", "U+1093", "U+1094",
        "U+1095", "U+1096", "U+1097", "U+1098", "U+1099">>,
      <<"U+17E0", "U+17E1", "U+17E2", "U+17E3", "U+17E4",
        "U+17E5", "U+17E6", "U+17E7", "U+17E8", "U+17E9">>,
      <<"U+1810", "U+1811", "U+1812", "U+1813", "U+1814",
        "U+1815", "U+1816", "U+1817", "U+1818", "U+1819">>,
      <<"U+1946", "U+1947", "U+1948", "U+1949", "U+194A",
        "U+194B", "U+194C", "U+194D", "U+194E", "U+194F">>,
      <<"U+19D0", "U+19D1", "U+19D2", "U+19D3", "U+19D4",
        "U+19D5", "U+19D6", "U+19D7", "U+19D8", "U+19D9">>,
      <<"U+1A80", "U+1A81", "U+1A82", "U+1A83", "U+1A84",
        "U+1A85", "U+1A86", "U+1A87", "U+1A88", "U+1A89">>,
      <<"U+1A90", "U+1A91", "U+1A92", "U+1A93", "U+1A94",
        "U+1A95", "U+1A96", "U+1A97", "U+1A98", "U+1A99">>,
      <<"U+1B50", "U+1B51", "U+1B52", "U+1B53", "U+1B54",
        "U+1B55", "U+1B56", "U+1B57", "U+1B58", "U+1B59">>,
      <<"U+1BB0", "U+1BB1", "U+1BB2", "U+1BB3", "U+1BB4",
        "U+1BB5", "U+1BB6", "U+1BB7", "U+1BB8", "U+1BB9">>,
      <<"U+1C40", "U+1C41", "U+1C42", "U+1C43", "U+1C44",
        "U+1C45", "U+1C46", "U+1C47", "U+1C48", "U+1C49">>,
      <<"U+1C50", "U+1C51", "U+1C52", "U+1C53", "U+1C54",
        "U+1C55", "U+1C56", "U+1C57", "U+1C58", "U+1C59">>,
      <<"U+A620", "U+A621", "U+A622", "U+A623", "U+A624",
        "U+A625", "U+A626", "U+A627", "U+A628", "U+A629">>,
      <<"U+A8D0", "U+A8D1", "U+A8D2", "U+A8D3", "U+A8D4",
        "U+A8D5", "U+A8D6", "U+A8D7", "U+A8D8", "U+A8D9">>,
      <<"U+A900", "U+A901", "U+A902", "U+A903", "U+A904",
        "U+A905", "U+A906", "U+A907", "U+A908", "U+A909">>,
      <<"U+A9D0", "U+A9D1", "U+A9D2", "U+A9D3", "U+A9D4",
        "U+A9D5", "U+A9D6", "U+A9D7", "U+A9D8", "U+A9D9">>,
      <<"U+A9F0", "U+A9F1", "U+A9F2", "U+A9F3", "U+A9F4",
        "U+A9F5", "U+A9F6", "U+A9F7", "U+A9F8", "U+A9F9">>,
      <<"U+AA50", "U+AA51", "U+AA52", "U+AA53", "U+AA54",
        "U+AA55", "U+AA56", "U+AA57", "U+AA58", "U+AA59">>,
      <<"U+ABF0", "U+ABF1", "U+ABF2", "U+ABF3", "U+ABF4",
        "U+ABF5", "U+ABF6", "U+ABF7", "U+ABF8", "U+ABF9">>,
      <<"U+FF10", "U+FF11", "U+FF12", "U+FF13", "U+FF14",
        "U+FF15", "U+FF16", "U+FF17", "U+FF18", "U+FF19">>,
      <<"U+104A0", "U+104A1", "U+104A2", "U+104A3", "U+104A4",
        "U+104A5", "U+104A6", "U+104A7", "U+104A8", "U+104A9">>,
      <<"U+10D30", "U+10D31", "U+10D32", "U+10D33", "U+10D34",
        "U+10D35", "U+10D36", "U+10D37", "U+10D38", "U+10D39">>,
      <<"U+11066", "U+11067", "U+11068", "U+11069", "U+1106A",
        "U+1106B", "U+1106C", "U+1106D", "U+1106E", "U+1106F">>,
      <<"U+110F0", "U+110F1", "U+110F2", "U+110F3", "U+110F4",
        "U+110F5", "U+110F6", "U+110F7", "U+110F8", "U+110F9">>,
      <<"U+11136", "U+11137", "U+11138", "U+11139", "U+1113A",
        "U+1113B", "U+1113C", "U+1113D", "U+1113E", "U+1113F">>,
      <<"U+111D0", "U+111D1", "U+111D2", "U+111D3", "U+111D4",
        "U+111D5", "U+111D6", "U+111D7", "U+111D8", "U+111D9">>,
      <<"U+112F0", "U+112F1", "U+112F2", "U+112F3", "U+112F4",
        "U+112F5", "U+112F6", "U+112F7", "U+112F8", "U+112F9">>,
      <<"U+11450", "U+11451", "U+11452", "U+11453", "U+11454",
        "U+11455", "U+11456", "U+11457", "U+11458", "U+11459">>,
      <<"U+114D0", "U+114D1", "U+114D2", "U+114D3", "U+114D4",
        "U+114D5", "U+114D6", "U+114D7", "U+114D8", "U+114D9">>,
      <<"U+11650", "U+11651", "U+11652", "U+11653", "U+11654",
        "U+11655", "U+11656", "U+11657", "U+11658", "U+11659">>,
      <<"U+116C0", "U+116C1", "U+116C2", "U+116C3", "U+116C4",
        "U+116C5", "U+116C6", "U+116C7", "U+116C8", "U+116C9">>,
      <<"U+11730", "U+11731", "U+11732", "U+11733", "U+11734",
        "U+11735", "U+11736", "U+11737", "U+11738", "U+11739">>,
      <<"U+118E0", "U+118E1", "U+118E2", "U+118E3", "U+118E4",
        "U+118E5", "U+118E6", "U+118E7", "U+118E8", "U+118E9">>,
      <<"U+11950", "U+11951", "U+11952", "U+11953", "U+11954",
        "U+11955", "U+11956", "U+11957", "U+11958", "U+11959">>,
      <<"U+11C50", "U+11C51", "U+11C52", "U+11C53", "U+11C54",
        "U+11C55", "U+11C56", "U+11C57", "U+11C58", "U+11C59">>,
      <<"U+11D50", "U+11D51", "U+11D52", "U+11D53", "U+11D54",
        "U+11D55", "U+11D56", "U+11D57", "U+11D58", "U+11D59">>,
      <<"U+11DA0", "U+11DA1", "U+11DA2", "U+11DA3", "U+11DA4",
        "U+11DA5", "U+11DA6", "U+11DA7", "U+11DA8", "U+11DA9">>,
      <<"U+16A60", "U+16A61", "U+16A62", "U+16A63", "U+16A64",
        "U+16A65", "U+16A66", "U+16A67", "U+16A68", "U+16A69">>,
      <<"U+16AC0", "U+16AC1", "U+16AC2", "U+16AC3", "U+16AC4",
        "U+16AC5", "U+16AC6", "U+16AC7", "U+16AC8", "U+16AC9">>,
      <<"U+16B50", "U+16B51", "U+16B52", "U+16B53", "U+16B54",
        "U+16B55", "U+16B56", "U+16B57", "U+16B58", "U+16B59">>,
      <<"U+1D7CE", "U+1D7CF", "U+1D7D0", "U+1D7D1", "U+1D7D2",
        "U+1D7D3", "U+1D7D4", "U+1D7D5", "U+1D7D6", "U+1D7D7">>,
      <<"U+1D7D8", "U+1D7D9", "U+1D7DA", "U+1D7DB", "U+1D7DC",
        "U+1D7DD", "U+1D7DE", "U+1D7DF", "U+1D7E0", "U+1D7E1">>,
      <<"U+1D7E2", "U+1D7E3", "U+1D7E4", "U+1D7E5", "U+1D7E6",
        "U+1D7E7", "U+1D7E8", "U+1D7E9", "U+1D7EA", "U+1D7EB">>,
      <<"U+1D7EC", "U+1D7ED", "U+1D7EE", "U+1D7EF", "U+1D7F0",
        "U+1D7F1", "U+1D7F2", "U+1D7F3", "U+1D7F4", "U+1D7F5">>,
      <<"U+1D7F6", "U+1D7F7", "U+1D7F8", "U+1D7F9", "U+1D7FA",
        "U+1D7FB", "U+1D7FC", "U+1D7FD", "U+1D7FE", "U+1D7FF">>,
      <<"U+1E140", "U+1E141", "U+1E142", "U+1E143", "U+1E144",
        "U+1E145", "U+1E146", "U+1E147", "U+1E148", "U+1E149">>,
      <<"U+1E2F0", "U+1E2F1", "U+1E2F2", "U+1E2F3", "U+1E2F4",
        "U+1E2F5", "U+1E2F6", "U+1E2F7", "U+1E2F8", "U+1E2F9">>,
      <<"U+1E950", "U+1E951", "U+1E952", "U+1E953", "U+1E954",
        "U+1E955", "U+1E956", "U+1E957", "U+1E958", "U+1E959">>,
      <<"U+1FBF0", "U+1FBF1", "U+1FBF2", "U+1FBF3", "U+1FBF4",
        "U+1FBF5", "U+1FBF6", "U+1FBF7", "U+1FBF8", "U+1FBF9">> }

UnicodeDigits == UNION { { r[i] : i \in 1..10 } : r \in NdRuns }

\* the characters int(), float() and the \d of a str pattern take as digits
Digits == AsciiDigits \cup UnicodeDigits

\* the characters str.split() and str.strip() take as whitespace
\* (str.isspace): tab, line feed, vertical tab, form feed, carriage return,
\* the separators 1C .. 1F, space, next line (85), no-break space (A0) and
\* the Unicode spaces
Whitespace ==
    {" ", "\t", "\n", "\r", "\f", "U+000B", "U+001C", "U+001D", "U+001E",
     "U+001F", "U+0085", "U+00A0",
     "U+1680", "U+2000", "U+2001", "U+2002", "U+2003", "U+2004", "U+2005",
     "U+2006", "U+2007", "U+2008", "U+2009", "U+200A", "U+2028", "U+2029",
     "U+202F", "U+205F", "U+3000"}

\* a sequence given element by element, as the tuple of its elements
Tuple(f) == SubSeq(f, 1, Len(f))

DigitVal(c) ==
    CASE c = "0" -> 0 [] c = "1" -> 1 [] c = "2" -> 2 [] c = "3" -> 3
      [] c = "4" -> 4 [] c = "5" -> 5 [] c = "6" -> 6 [] c = "7" -> 7
      [] c = "8" -> 8 [] c = "9" -> 9
      [] OTHER   -> (CHOOSE i \in 1..10 : \E r \in NdRuns : r[i] = c) - 1

\* str.lower() restricted to the letters float() looks at
Lower(c) ==
    CASE c = "N" -> "n" [] c = "A" -> "a" [] c = "I" -> "i" [] c = "F" -> "f"
      [] c = "T" -> "t" [] c = "Y" -> "y" [] c = "E" -> "e"
      [] OTHER -> c

LowerStr(s) == Tuple([i \in 1..Len(s) |-> Lower(s[i])])

RECURSIVE Pow10(_)
Pow10(n) == IF n <= 0 THEN 1 ELSE 10 * Pow10(n - 1)

\* index of the first character of s that is in set cs, 0 when there is none
Find(s, cs) ==
    LET P == { i \in 1..Len(s) : s[i] \in cs }
    IN  IF P = {} THEN 0 ELSE CHOOSE i \in P : \A j \in P : i <= j

Slice(s, a, b) == IF a > b THEN <<>> ELSE SubSeq(s, a, b)

(***************************************************************************)
(* line.startswith('date')  and  line.strip().split()                      *)
(***************************************************************************)
\* variant: the skip test is  line.startswith('2004')
HeaderPrefix_year == <<"2", "0", "0", "4">>

HeaderPrefix == <<"d", "a", "t", "e">>

StartsWith(s, p) == Len(s) >= Len(p) /\ SubSeq(s, 1, Len(p)) = p

\* the k-th smallest element of a set of integers
Nth(S, k) == CHOOSE i \in S : Cardinality({ j \in S : j < i }) = k - 1

\* str.split() with no argument: the tokens are the maximal runs of
\* characters that are not whitespace, so leading and trailing whitespace
\* (what strip() removes) give no token
Split(s) ==
    LET Dark(i) == s[i] \notin Whitespace
        starts  == { i \in 1..Len(s) : Dark(i) /\ (i = 1 \/ ~Dark(i - 1)) }
        ends    == { i \in 1..Len(s) : Dark(i) /\ (i = Len(s) \/ ~Dark(i + 1)) }
    IN  Tuple([k \in 1..Cardinality(starts) |->
                  SubSeq(s, Nth(starts, k), Nth(ends, k))])

(***************************************************************************)
(* Decimal arithmetic on digit sequences.  A natural number is the         *)
(* sequence of its decimal digits, most significant first; a scaled        *)
(* number [n, q] is n * 10^q.  Python's int is unbounded and float()       *)
(* rounds a decimal of any length, so the values are computed on digit     *)
(* sequences and no digit is lost.                                         *)
(***************************************************************************)
Zeros(k) == IF k <= 0 THEN <<>> ELSE Tuple([i \in 1..k |-> 0])

\* the i-th digit of n, 0 on either side of n
DigitAt(n, i) == IF i >= 1 /\ i <= Len(n) THEN n[i] ELSE 0

StripLeadingZeros(d) ==
    IF \A i \in 1..Len(d) : d[i] = 0 THEN <<>>
    ELSE SubSeq(d, CHOOSE i \in 1..Len(d) :
                       d[i] # 0 /\ \A j \in 1..(i - 1) : d[j] = 0, Len(d))

StripTrailingZeros(d) ==
    IF \A i \in 1..Len(d) : d[i] = 0 THEN <<>>
    ELSE SubSeq(d, 1, CHOOSE i \in 1..Len(d) :
                          d[i] # 0 /\ \A j \in (i + 1)..Len(d) : d[j] = 0)

\* the digits of a natural number that fits a machine integer, <<>> for 0
RECURSIVE NatDigits(_)
NatDigits(n) == IF n = 0 THEN <<>> ELSE Append(NatDigits(n \div 10), n % 10)

\* the natural number of a short digit sequence
RECURSIVE NatValue(_)
NatValue(d) ==
    IF d = <<>> THEN 0
    ELSE 10 * NatValue(SubSeq(d, 1, Len(d) - 1)) + d[Len(d)]

\* 2 * n : a digit takes a carry exactly when the digit after it is 5 or more
Twice(n) ==
    StripLeadingZeros(
        Tuple([i \in 1..(Len(n) + 1) |->
                 (2 * DigitAt(n, i - 1)
                    + (IF DigitAt(n, i) >= 5 THEN 1 ELSE 0)) % 10]))

\* 5 * n , the half of 10 * n : an odd digit hands 10 to the digit after it
FiveTimes(n) ==
    StripLeadingZeros(
        Tuple([i \in 1..(Len(n) + 1) |->
                 (DigitAt(n, i) + 10 * (DigitAt(n, i - 1) % 2)) \div 2]))

\* n with the digit at k raised by c and the digits after it set to fill
Carried(n, k, c, fill) ==
    Tuple([i \in 1..Len(n) |->
             IF i < k THEN n[i] ELSE IF i = k THEN n[i] + c ELSE fill])

AddOne(n) ==
    IF \A i \in 1..Len(n) : n[i] = 9 THEN <<1>> \o Zeros(Len(n))
    ELSE Carried(n, CHOOSE i \in 1..Len(n) :
                        n[i] # 9 /\ \A j \in (i + 1)..Len(n) : n[j] = 9, 1, 0)

\* n - 1 for n > 0
SubOne(n) ==
    Carried(n, CHOOSE i \in 1..Len(n) :
                   n[i] # 0 /\ \A j \in (i + 1)..Len(n) : n[j] = 0, -1, 9)

\* s.n * 2^s.j , or s.n * 5^s.j when s.five : the factors are applied one
\* by one, the first half of them and then the rest
RECURSIVE Repeated(_)
Repeated(s) ==
    IF s.j <= 0 THEN s.n
    ELSE IF s.j = 1 THEN (IF s.five THEN FiveTimes(s.n) ELSE Twice(s.n))
    ELSE Repeated([n    |-> Repeated([s EXCEPT !.j = s.j \div 2]),
                   j    |-> s.j - s.j \div 2,
                   five |-> s.five])

\* n * 2^j as a scaled number, exactly ( 2^-1 = 5 * 10^-1 )
TimesPow2(n, j) ==
    IF j >= 0 THEN [n |-> Repeated([n |-> n, j |-> j, five |-> FALSE]), q |-> 0]
    ELSE [n |-> Repeated([n |-> n, j |-> -j, five |-> TRUE]), q |-> j]

\* -1, 0, 1 as x is less than, equal to, greater than y (no leading zeros)
CmpStripped(x, y) ==
    IF Len(x) < Len(y) THEN -1
    ELSE IF Len(x) > Len(y) THEN 1
    ELSE IF x = y THEN 0
    ELSE IF \E i \in 1..Len(x) :
               x[i] < y[i] /\ \A j \in 1..(i - 1) : x[j] = y[j]
    THEN -1
    ELSE 1

CmpNat(a, b) == CmpStripped(StripLeadingZeros(a), StripLeadingZeros(b))

CmpScaled(a, b) ==
    LET q == IF a.q < b.q THEN a.q ELSE b.q
    IN  CmpNat(a.n \o Zeros(a.q - q), b.n \o Zeros(b.q - q))

IsOdd(n) == n # <<>> /\ n[Len(n)] % 2 = 1

\* the digits of a scaled number before and after the decimal point
Padded(s) == Zeros(-s.q - Len(s.n)) \o s.n

IntPart(s) ==
    IF s.q >= 0 THEN s.n \o Zeros(s.q)
    ELSE SubSeq(Padded(s), 1, Len(Padded(s)) + s.q)

FracPart(s) ==
    IF s.q >= 0 THEN <<>>
    ELSE SubSeq(Padded(s), Len(Padded(s)) + s.q + 1, Len(Padded(s)))

\* -1, 0, 1 as the fraction 0.f is below, at, above one half
HalfCmp(f) ==
    IF f = <<>> THEN -1
    ELSE IF f[1] > 5 THEN 1
    ELSE IF f[1] < 5 THEN -1
    ELSE IF \E i \in 2..Len(f) : f[i] # 0 THEN 1
    ELSE 0

\* round half to even: up when the rest is above one half (h = 1), or is
\* one half (h = 0) and the digits kept are odd
RoundsUp(h, kept) == h > 0 \/ (h = 0 /\ IsOdd(kept))

\* the nearest integer, a tie goes to the even one
RoundHalfEven(s) ==
    IF RoundsUp(HalfCmp(FracPart(s)), IntPart(s)) THEN AddOne(IntPart(s))
    ELSE IntPart(s)

(***************************************************************************)
(* int(str)                                                                *)
(***************************************************************************)
\* a run of decimal digits in which single underscores may stand between
\* two digits (PEP 515), as int() and float() accept it
IsDigitRun(s) ==
    /\ Len(s) >= 1
    /\ \A i \in 1..Len(s) : s[i] = "_" \/ s[i] \in Digits
    /\ s[1] \in Digits
    /\ s[Len(s)] \in Digits
    /\ \A i \in 1..(Len(s) - 1) : ~(s[i] = "_" /\ s[i + 1] = "_")

OnlyDigits(s) == SelectSeq(s, LAMBDA c : c # "_")

\* the digit values of a digit run (underscores skipped)
DigitSeq(s) == Tuple([i \in 1..Len(OnlyDigits(s)) |-> DigitVal(OnlyDigits(s)[i])])

HasSign(s) == Len(s) >= 1 /\ s[1] \in {"+", "-"}

SignOf(s) == IF Len(s) >= 1 /\ s[1] = "-" THEN -1 ELSE 1

Unsigned(s) == IF HasSign(s) THEN Tail(s) ELSE s

\* sys.get_int_max_str_digits(): int() raises ValueError on more digits
MAX_STR_DIGITS == 4300

\* a Python int: its sign and its digits without leading zeros, <<0>> for 0
IntValue(neg, d) ==
    IF StripLeadingZeros(d) = <<>> THEN [neg |-> FALSE, digits |-> <<0>>]
    ELSE [neg |-> neg, digits |-> StripLeadingZeros(d)]

\* int(tok): ok = FALSE models ValueError (v is then meaningless)
ParseInt(tok) ==
    IF /\ IsDigitRun(Unsigned(tok))
       /\ Len(OnlyDigits(Unsigned(tok))) <= MAX_STR_DIGITS
    THEN [ok |-> TRUE, v |-> IntValue(SignOf(tok) < 0, DigitSeq(Unsigned(tok)))]
    ELSE [ok |-> FALSE, v |-> IntValue(FALSE, <<>>)]

(***************************************************************************)
(* float(str): the double nearest to the decimal, written as the shortest  *)
(* decimal that rounds to it (its repr), 0.digs * 10^exp with a sign       *)
(***************************************************************************)
NaN == [kind |-> "nan"]

Inf(sign) == [kind |-> "inf", sign |-> sign]

Zero(neg) == [kind |-> "num", neg |-> neg, digs |-> <<>>, exp |-> 0]

\* the scaled number c as a float value: digs has no zero at either end
Num(neg, c) ==
    IF StripLeadingZeros(c.n) = <<>> THEN Zero(neg)
    ELSE [kind |-> "num", neg |-> neg,
          digs |-> StripTrailingZeros(StripLeadingZeros(c.n)),
          exp  |-> c.q + Len(StripLeadingZeros(c.n))]

P2_52 == <<4, 5, 0, 3, 5, 9, 9, 6, 2, 7, 3, 7, 0, 4, 9, 6>>

P2_53 == <<9, 0, 0, 7, 1, 9, 9, 2, 5, 4, 7, 4, 0, 9, 9, 2>>

\* a double has 53 significant bits and no exponent below -1074
MAX_SHIFT == 1074

\* above this shift of the significand the value is 2^1024 or more
MIN_SHIFT == -971

\* digits that tell any two doubles apart (DBL_DECIMAL_DIG)
DBL_DECIMAL_DIG == 17

\* an integer that is not below e * log2(10)
Log2Bound(e) ==
    IF e >= 0 THEN (e * 3322 + 999) \div 1000 ELSE -(((-e) * 3321) \div 1000)

\* s is [n, q, k] with y = n * 10^q = x * 2^k below 2^53: y is doubled until
\* it is 2^52 or more, or k is 1074 (x is below the normal range)
RECURSIVE Normalize(_)
Normalize(s) ==
    IF /\ s.k < MAX_SHIFT
       /\ CmpScaled([n |-> s.n, q |-> s.q], [n |-> P2_52, q |-> 0]) < 0
    THEN Normalize([n |-> Twice(s.n), q |-> s.q, k |-> s.k + 1])
    ELSE s

\* x = 0.digs * 10^exp times 2^k
Shifted(digs, exp, k) ==
    [n |-> TimesPow2(digs, k).n,
     q |-> TimesPow2(digs, k).q + exp - Len(digs),
     k |-> k]

\* x = 0.digs * 10^exp is below 2^Log2Bound(exp), so x * 2^k is below 2^52
\* for k = 52 - Log2Bound(exp)
Scale(digs, exp) ==
    Normalize(Shifted(digs, exp,
                      IF 52 - Log2Bound(exp) > MAX_SHIFT THEN MAX_SHIFT
                      ELSE 52 - Log2Bound(exp)))

\* c lies between lo and hi, the ends included when closed
Within(c, lo, hi, closed) ==
    IF closed
    THEN CmpScaled(lo, c) <= 0 /\ CmpScaled(c, hi) <= 0
    ELSE CmpScaled(lo, c) < 0 /\ CmpScaled(c, hi) < 0

\* the neighbours of v that have n digits, below and above
Down(v, n) == [n |-> SubSeq(v.n, 1, n), q |-> v.q + Len(v.n) - n]

Up(v, n) == [n |-> AddOne(SubSeq(v.n, 1, n)), q |-> v.q + Len(v.n) - n]

\* v rounded to n digits, and its other neighbour
Near(v, n) ==
    IF RoundsUp(HalfCmp(SubSeq(v.n, n + 1, Len(v.n))), SubSeq(v.n, 1, n))
    THEN Up(v, n) ELSE Down(v, n)

Far(v, n) ==
    IF RoundsUp(HalfCmp(SubSeq(v.n, n + 1, Len(v.n))), SubSeq(v.n, 1, n))
    THEN Down(v, n) ELSE Up(v, n)

\* of the two neighbours of v with n digits the nearer one that lies
\* between lo and hi
ShortestAt(v, lo, hi, closed, n) ==
    IF Within(Near(v, n), lo, hi, closed) THEN Near(v, n) ELSE Far(v, n)

\* the shortest decimal between lo and hi, the decimals that round to v:
\* N is the numbers of digits, fewer than v has, with which a neighbour of
\* v lies there
ShortestOf(v, lo, hi, closed, N) ==
    IF N = {} THEN v
    ELSE ShortestAt(v, lo, hi, closed, CHOOSE i \in N : \A j \in N : i <= j)

Shortest(v, lo, hi, closed) ==
    ShortestOf(v, lo, hi, closed,
               { n \in 1..DBL_DECIMAL_DIG :
                   /\ n < Len(v.n)
                   /\ \/ Within(Down(v, n), lo, hi, closed)
                      \/ Within(Up(v, n), lo, hi, closed) })

\* the double with significand m and shift k, m * 2^-k , as its repr: the
\* decimals that round to it lie within half a step on either side (a
\* quarter of a step below a power of two)
ReprOf(neg, m, k) ==
    Num(neg,
        Shortest(TimesPow2(m, -k),
                 IF CmpNat(m, P2_52) = 0 /\ k < MAX_SHIFT
                 THEN TimesPow2(SubOne(Twice(Twice(m))), -(k + 2))
                 ELSE TimesPow2(SubOne(Twice(m)), -(k + 1)),
                 TimesPow2(AddOne(Twice(m)), -(k + 1)),
                 ~IsOdd(m)))

\* the double m * 2^-k for m from 1 to 2^53: 2^53 is 2^52 at one shift
\* less, and 2^1024 or more is inf
Double(neg, m, k) ==
    IF m = <<>> THEN Zero(neg)
    ELSE IF CmpNat(m, P2_53) = 0 /\ k - 1 < MIN_SHIFT
         THEN Inf(IF neg THEN -1 ELSE 1)
    ELSE IF CmpNat(m, P2_53) = 0 THEN ReprOf(neg, P2_52, k - 1)
    ELSE IF k < MIN_SHIFT THEN Inf(IF neg THEN -1 ELSE 1)
    ELSE ReprOf(neg, m, k)

\* s = [n, q, k] rounded half to even to the double nearest n * 10^q * 2^-k
Rounded(neg, s) ==
    Double(neg, StripLeadingZeros(RoundHalfEven([n |-> s.n, q |-> s.q])), s.k)

\* round-half-even of the decimal 0.digs * 10^exp to a double
NearestDouble(neg, digs, exp) == Rounded(neg, Scale(digs, exp))

\* digits a decimal may have to be the repr of its double (DBL_DIG)
DBL_DIG == 15

\* a decimal of at most 15 digits in the normal range is the repr of the
\* double it rounds to; 10^309 and more is inf, less than 10^-324 is zero;
\* every other decimal is rounded digit by digit
RoundToDouble(neg, digs, exp) ==
    IF digs = <<>> THEN Zero(neg)
    ELSE IF Len(digs) <= DBL_DIG /\ exp >= -306 /\ exp <= 308
    THEN [kind |-> "num", neg |-> neg, digs |-> digs, exp |-> exp]
    ELSE IF exp >= 310 THEN Inf(IF neg THEN -1 ELSE 1)
    ELSE IF exp <= -324 THEN Zero(neg)
    ELSE NearestDouble(neg, digs, exp)

\* the decimal 0.all * 10^point , all with zeros at either end
FromDecimal(neg, all, point) ==
    RoundToDouble(neg, StripTrailingZeros(StripLeadingZeros(all)),
                  point - (Len(all) - Len(StripLeadingZeros(all))))

\* an exponent of nine digits or more is taken as this one: the value is
\* inf or zero either way for a token of fewer than 10^8 characters
EXP_CAP == 100000000

\* the digits d of an exponent as a number
ExponentValue(d) == IF Len(d) > 8 THEN EXP_CAP ELSE NatValue(d)

\* the exponent part of a float literal (the characters after e / E)
ParseExponent(x) ==
    IF IsDigitRun(Unsigned(x))
    THEN [ok |-> TRUE,
          v  |-> SignOf(x)
                   * ExponentValue(StripLeadingZeros(DigitSeq(Unsigned(x))))]
    ELSE [ok |-> FALSE, v |-> 0]

\* s up to, and s after, its first character in cs (all of s, and nothing,
\* when there is none)
Before(s, cs) == IF Find(s, cs) = 0 THEN s ELSE Slice(s, 1, Find(s, cs) - 1)

After(s, cs) ==
    IF Find(s, cs) = 0 THEN <<>> ELSE Slice(s, Find(s, cs) + 1, Len(s))

\* the exponent of the literal body: 0 when it has no e
ExponentOf(body) ==
    IF Find(body, {"e", "E"}) = 0 THEN [ok |-> TRUE, v |-> 0]
    ELSE ParseExponent(After(body, {"e", "E"}))

\* the decimal literal with the digits ipart before the point, fpart after
\* it and the exponent expo
Literal(neg, ipart, fpart, expo) ==
    IF /\ ipart = <<>> \/ IsDigitRun(ipart)
       /\ fpart = <<>> \/ IsDigitRun(fpart)
       /\ ~(ipart = <<>> /\ fpart = <<>>)
       /\ expo.ok
    THEN [ok |-> TRUE,
          v  |-> FromDecimal(neg, DigitSeq(ipart) \o DigitSeq(fpart),
                             Len(DigitSeq(ipart)) + expo.v)]
    ELSE [ok |-> FALSE, v |-> NaN]

\* float(tok): ok = FALSE models ValueError (v is then meaningless)
ParseFloat(tok) ==
    IF LowerStr(Unsigned(tok)) = <<"n", "a", "n">>
    THEN [ok |-> TRUE, v |-> NaN]
    ELSE IF LowerStr(Unsigned(tok))
              \in {<<"i", "n", "f">>, <<"i", "n", "f", "i", "n", "i", "t", "y">>}
    THEN [ok |-> TRUE, v |-> Inf(SignOf(tok))]
    ELSE Literal(SignOf(tok) < 0,
                 Before(Before(Unsigned(tok), {"e", "E"}), {"."}),
                 After(Before(Unsigned(tok), {"e", "E"}), {"."}),
                 ExponentOf(Unsigned(tok)))

\* the integer c as a float value
FloatOfInt(c) == Num(c < 0, [n |-> NatDigits(IF c < 0 THEN -c ELSE c), q |-> 0])

\* the digits of a and of b, zeros added to the shorter
Aligned(a, b) == a \o Zeros(Len(b) - Len(a))

\* -1, 0, 1 as the magnitude of a is less than, equal to, greater than b's
CmpMagnitude(a, b) ==
    IF a.exp < b.exp THEN -1
    ELSE IF a.exp > b.exp THEN 1
    ELSE CmpStripped(Aligned(a.digs, b.digs), Aligned(b.digs, a.digs))

\* -1, 0, 1 as a number is negative, zero ( -0.0 too ), positive
Sign(a) == IF a.digs = <<>> THEN 0 ELSE IF a.neg THEN -1 ELSE 1

\* -1, 0, 1 as the number a is less than, equal to, greater than b
CmpNum(a, b) ==
    IF Sign(a) < Sign(b) THEN -1
    ELSE IF Sign(a) > Sign(b) THEN 1
    ELSE Sign(a) * CmpMagnitude(a, b)

\* Python's  x < c  and  x > c  for a float x and an integer constant c:
\* every comparison with nan is False
FloatLt(x, c) ==
    CASE x.kind = "nan" -> FALSE
      [] x.kind = "inf" -> x.sign < 0
      [] OTHER          -> CmpNum(x, FloatOfInt(c)) < 0

FloatGt(x, c) ==
    CASE x.kind = "nan" -> FALSE
      [] x.kind = "inf" -> x.sign > 0
      [] OTHER          -> CmpNum(x, FloatOfInt(c)) > 0

(***************************************************************************)
(* datetime.strptime(f"{date} {time_str}", "%Y-%m-%d %H:%M:%S.%f")         *)
(*                                                                         *)
(* The format is matched as a regular expression in which \d takes every   *)
(* decimal digit and a class such as [0-5] the ASCII digits only; the      *)
(* groups are then converted by int() and handed to datetime(...).         *)
(***************************************************************************)
IsLeap(y) == (y % 4 = 0 /\ y % 100 # 0) \/ y % 400 = 0

DaysInMonth(y, m) ==
    CASE m \in {1, 3, 5, 7, 8, 10, 12} -> 31
      [] m \in {4, 6, 9, 11}           -> 30
      [] OTHER                         -> IF IsLeap(y) THEN 29 ELSE 28

AllDigits(s) == \A i \in 1..Len(s) : s[i] \in Digits

AllAsciiDigits(s) == \A i \in 1..Len(s) : s[i] \in AsciiDigits

\* int() of a matched field
PlainValue(s) == NatValue(Tuple([i \in 1..Len(s) |-> DigitVal(s[i])]))

\* the ASCII digits of the class [lo-hi]
Class(lo, hi) == { c \in AsciiDigits : DigitVal(c) >= lo /\ DigitVal(c) <= hi }

\* a two-character alternative: first character in a, second in b
Two(s, a, b) == Len(s) = 2 /\ s[1] \in a /\ s[2] \in b

\* a one-character alternative
One(s, a) == Len(s) = 1 /\ s[1] \in a

\* %Y  \d\d\d\d
MatchY(s) == Len(s) = 4 /\ AllDigits(s)

\* %m  1[0-2]|0[1-9]|[1-9]
MatchMonth(s) ==
    \/ Two(s, {"1"}, Class(0, 2))
    \/ Two(s, {"0"}, Class(1, 9))
    \/ One(s, Class(1, 9))

\* %d  3[0-1]|[1-2]\d|0[1-9]|[1-9]  (the alternative that begins with a
\* blank cannot match inside a token)
MatchDay(s) ==
    \/ Two(s, {"3"}, Class(0, 1))
    \/ Two(s, Class(1, 2), Digits)
    \/ Two(s, {"0"}, Class(1, 9))
    \/ One(s, Class(1, 9))

\* %H  2[0-3]|[0-1]\d|\d
MatchHour(s) ==
    \/ Two(s, {"2"}, Class(0, 3))
    \/ Two(s, Class(0, 1), Digits)
    \/ One(s, Digits)

\* %M  [0-5]\d|\d
MatchMinute(s) ==
    \/ Two(s, Class(0, 5), Digits)
    \/ One(s, Digits)

\* %S  6[0-1]|[0-5]\d|\d
MatchSecond(s) ==
    \/ Two(s, {"6"}, Class(0, 1))
    \/ Two(s, Class(0, 5), Digits)
    \/ One(s, Digits)

\* %f  [0-9]{1,6}
MatchFraction(s) == Len(s) \in 1..6 /\ AllAsciiDigits(s)

\* the fields of s between the occurrences of the separator character
SplitOn(s, sep) ==
    LET P     == { i \in 1..Len(s) : s[i] = sep }
        At(k) == IF k = 0 THEN 0
                 ELSE IF k > Cardinality(P) THEN Len(s) + 1
                 ELSE Nth(P, k)
    IN  Tuple([k \in 1..(Cardinality(P) + 1) |->
                  Slice(s, At(k - 1) + 1, At(k) - 1)])

\* %f: one to six digits, right-padded with zeros to microseconds
Microseconds(s) == PlainValue(s) * Pow10(6 - Len(s))

NoTime ==
    [year |-> 0, month |-> 0, day |-> 0, hour |-> 0, minute |-> 0,
     second |-> 0, microsecond |-> 0]

\* ok = FALSE models ValueError (no match, unconverted data, or a field
\* the datetime constructor rejects)
Strptime(date, time_str) ==
    LET d  == SplitOn(date, "-")
        t  == SplitOn(time_str, ":")
        sf == IF Len(t) = 3 THEN SplitOn(t[3], ".") ELSE <<>>
    IN
    IF /\ Len(d) = 3
       /\ MatchY(d[1])
       /\ MatchMonth(d[2])
       /\ MatchDay(d[3])
       /\ Len(t) = 3
       /\ MatchHour(t[1])
       /\ MatchMinute(t[2])
       /\ Len(sf) = 2
       /\ MatchSecond(sf[1])
       /\ MatchFraction(sf[2])
       \* datetime(...) range checks
       /\ PlainValue(d[1]) >= 1
       /\ PlainValue(d[3]) <= DaysInMonth(PlainValue(d[1]), PlainValue(d[2]))
       /\ PlainValue(sf[1]) <= 59
    THEN [ok |-> TRUE,
          v  |-> [year        |-> PlainValue(d[1]),
                  month       |-> PlainValue(d[2]),
                  day         |-> PlainValue(d[3]),
                  hour        |-> PlainValue(t[1]),
                  minute      |-> PlainValue(t[2]),
                  second      |-> PlainValue(sf[1]),
                  microsecond |-> Microseconds(sf[2])]]
    ELSE [ok |-> FALSE, v |-> NoTime]

(***************************************************************************)
(* The body of the  for line in f  loop of process_intel_data up to the    *)
(* batch test: the records the line appends to data (none or one)          *)
(***************************************************************************)
TEMP_MIN == -40

TEMP_MAX == 100

HUM_MIN == 0

HUM_MAX == 100

TempOutOfRange(temperature) ==
    FloatLt(temperature, TEMP_MIN) \/ FloatGt(temperature, TEMP_MAX)

HumOutOfRange(humidity) ==
    FloatLt(humidity, HUM_MIN) \/ FloatGt(humidity, HUM_MAX)

\* variant: the voltage column is not converted inside the try block
Converts_noVoltage(parts) ==
    /\ Len(parts) >= 8
    /\ ParseInt(parts[4]).ok
    /\ ParseFloat(parts[5]).ok
    /\ ParseFloat(parts[6]).ok
    /\ ParseFloat(parts[7]).ok
    /\ Strptime(parts[1], parts[2]).ok

\* parts[0], parts[1], parts[3] .. parts[7] exist and convert, and the
\* timestamp parses: no IndexError and no ValueError in the try block
Converts(parts) ==
    /\ Len(parts) >= 8
    /\ ParseInt(parts[4]).ok
    /\ ParseFloat(parts[5]).ok
    /\ ParseFloat(parts[6]).ok
    /\ ParseFloat(parts[7]).ok
    /\ ParseFloat(parts[8]).ok
    /\ Strptime(parts[1], parts[2]).ok

RecordOf(parts) ==
    [time        |-> Strptime(parts[1], parts[2]).v,
     sensor_id   |-> ParseInt(parts[4]).v,
     temperature |-> ParseFloat(parts[5]).v,
     humidity    |-> ParseFloat(parts[6]).v,
     light       |-> ParseFloat(parts[7]).v,
     voltage     |-> ParseFloat(parts[8]).v]

\* variant: the epoch column is converted too,  epoch = int(parts[2])
TryBlock_epoch(line) ==
    LET parts == Split(line) IN
    IF ~Converts(parts) \/ ~ParseInt(parts[3]).ok THEN <<>>
    ELSE LET rec == RecordOf(parts) IN
         IF TempOutOfRange(rec.temperature) THEN <<>>
         ELSE IF HumOutOfRange(rec.humidity) THEN <<>>
         ELSE <<rec>>

\* the try block of the loop body: <<>> when an exception is caught or a
\* range test fails, <<record>> when the record is appended
TryBlock(line) ==
    LET parts == Split(line) IN
    IF ~Converts(parts) THEN <<>>
    ELSE LET rec == RecordOf(parts) IN
         IF TempOutOfRange(rec.temperature) THEN <<>>
         ELSE IF HumOutOfRange(rec.humidity) THEN <<>>
         ELSE <<rec>>

\* <<>> when the line is skipped, <<record>> when it is appended
ParseLine(line) ==
    IF StartsWith(line, HeaderPrefix) THEN <<>>
    ELSE TryBlock(line)

(***************************************************************************)
(* Input text: tokens, lines and files                                     *)
(***************************************************************************)
\* "2004-03-01"
D_OK == <<"2", "0", "0", "4", "-", "0", "3", "-", "0", "1">>

\* "2004-02-30"
D_FEB30 == <<"2", "0", "0", "4", "-", "0", "2", "-", "3", "0">>

\* "date"
D_HDR == <<"d", "a", "t", "e">>

\* "10:00:00.123456"
T_OK == <<"1", "0", ":", "0", "0", ":", "0", "0", ".", "1", "2", "3", "4", "5", "6">>

\* "10:00:01.5"
T_LATER == <<"1", "0", ":", "0", "0", ":", "0", "1", ".", "5">>

\* "10:00:00"
T_NOFRAC == <<"1", "0", ":", "0", "0", ":", "0", "0">>

\* "1"
E_1 == <<"1">>

\* "abc"
E_ABC == <<"a", "b", "c">>

\* "3"
ID_3 == <<"3">>

\* "4"
ID_4 == <<"4">>

\* "3.5"
ID_3P5 == <<"3", ".", "5">>

\* "x"
ID_X == <<"x">>

\* "-41"
F_M41 == <<"-", "4", "1">>

\* "-40.1"
F_M40P1 == <<"-", "4", "0", ".", "1">>

\* "-40"
F_M40 == <<"-", "4", "0">>

\* "-1"
F_M1 == <<"-", "1">>

\* "-0.1"
F_M0P1 == <<"-", "0", ".", "1">>

\* "0"
F_0 == <<"0">>

\* "2.5"
F_2P5 == <<"2", ".", "5">>

\* "22.5"
F_22P5 == <<"2", "2", ".", "5">>

\* "40.0"
F_40P0 == <<"4", "0", ".", "0">>

\* "100"
F_100 == <<"1", "0", "0">>

\* "100.0"
F_100P0 == <<"1", "0", "0", ".", "0">>

\* "1e2"
F_1E2 == <<"1", "e", "2">>

\* "100.1"
F_100P1 == <<"1", "0", "0", ".", "1">>

\* "101"
F_101 == <<"1", "0", "1">>

\* "150.0"
F_150P0 == <<"1", "5", "0", ".", "0">>

\* "nan"
F_NAN == <<"n", "a", "n">>

\* "inf"
F_INF == <<"i", "n", "f">>

\* "x"
F_X == <<"x">>

\* "extra"
X_EXTRA == <<"e", "x", "t", "r", "a">>

\* "100.00000000000000001"
F_100_TAIL ==
    <<"1", "0", "0", ".", "0", "0", "0", "0", "0", "0", "0", "0", "0", "0",
      "0", "0", "0", "0", "0", "0", "1">>

\* "-40.000000000000000001"
F_M40_TAIL ==
    <<"-", "4", "0", ".", "0", "0", "0", "0", "0", "0", "0", "0", "0", "0",
      "0", "0", "0", "0", "0", "0", "0", "1">>

\* "100.00000000000001"
F_100_NEXT ==
    <<"1", "0", "0", ".", "0", "0", "0", "0", "0", "0", "0", "0", "0", "0",
      "0", "0", "0", "1">>

\* "-1e-400"
F_NEG_TINY ==
    <<"-", "1", "e", "-", "4", "0", "0">>

\* "1e400"
F_HUGE ==
    <<"1", "e", "4", "0", "0">>

\* "3.5" in Arabic-Indic digits
F_ARABIC_3P5 ==
    <<"U+0663", ".", "U+0665">>

\* "1_0.5"
F_1_0P5 ==
    <<"1", "_", "0", ".", "5">>

\* "3" as the fullwidth digit
ID_FULLWIDTH_3 ==
    <<"U+FF13">>

\* "2004-03-01" with the year in fullwidth digits
D_FULLWIDTH_YEAR ==
    <<"U+FF12", "U+FF10", "U+FF10", "U+FF14", "-", "0", "3", "-", "0", "1">>

\* "2004-03-01" with the 3 of the month as a fullwidth digit
D_FULLWIDTH_MONTH ==
    <<"2", "0", "0", "4", "-", "0", "U+FF13", "-", "0", "1">>

\* "10:07:00.5" with the 7 as an Arabic-Indic digit
T_ARABIC_MINUTE ==
    <<"1", "0", ":", "0", "U+0667", ":", "0", "0", ".", "5">>

\* "10:00:00.5" with the 5 as a fullwidth digit
T_FULLWIDTH_FRAC ==
    <<"1", "0", ":", "0", "0", ":", "0", "0", ".", "U+FF15">>

\* 4300 digits, the most int() converts, and one digit more
ID_4300 == Tuple([i \in 1..MAX_STR_DIGITS |-> "7"])

ID_4301 == Tuple([i \in 1..(MAX_STR_DIGITS + 1) |-> "7"])

\* the tokens joined by the separator sep
RECURSIVE JoinWith(_, _)
JoinWith(toks, sep) ==
    IF toks = <<>> THEN <<>>
    ELSE IF Len(toks) = 1 THEN toks[1]
    ELSE toks[1] \o sep \o JoinWith(Tail(toks), sep)

\* the tokens joined by single spaces
Join(toks) == JoinWith(toks, <<" ">>)

\* a line as iterating over the file yields it: the line feed that ends it
\* is its last character
Line(toks) == Join(toks) \o <<"\n">>

DateTokens == {D_OK, D_FEB30, D_HDR}

TimeTokens == {T_OK, T_NOFRAC}

EpochTokens == {E_1, E_ABC}

IdTokens == {ID_3, ID_3P5, ID_X}

TempTokens ==
    {F_M41, F_M40P1, F_M40, F_22P5, F_100, F_1E2, F_100P1, F_101,
     F_NAN, F_INF, F_X}

HumTokens == {F_M1, F_M0P1, F_0, F_40P0, F_100, F_100P1, F_NAN, F_X}

LightTokens == {F_100P0, F_NAN, F_X}

VoltTokens == {F_2P5, F_X}

\* number of tokens on a generated line: 8 is the full layout, fewer is a
\* short line, 9 has a trailing extra token
TokenCounts == 0..9

\* how the tokens lie on a line: single spaces between them and the line
\* feed at the end, or (the last line of a file, which nothing ends) tabs
\* between them and a blank in front
Layouts == {"plain", "ragged"}

Laid(toks, layout) ==
    IF layout = "plain" THEN Line(toks)
    ELSE <<" ">> \o JoinWith(toks, <<"\t">>)

\* every combination of the field tokens, cut to n tokens, in either layout
GridLines ==
    { Laid(SubSeq(<<d, t, e, id, temp, hum, light, volt, X_EXTRA>>, 1, n),
           layout) :
        d \in DateTokens, t \in TimeTokens, e \in EpochTokens, id \in IdTokens,
        temp \in TempTokens, hum \in HumTokens, light \in LightTokens,
        volt \in VoltTokens, n \in TokenCounts, layout \in Layouts }

\* lines at the edges of int(), float(), strptime and split()
\* temperature rounds to 100.0, humidity to -0.0, light to inf
EDGE_ROUNDED == Line(<<D_OK, T_OK, E_1, ID_3, F_100_TAIL, F_NEG_TINY, F_HUGE, F_2P5>>)

\* temperature rounds to -40.0
EDGE_ROUNDED_LOW == Line(<<D_OK, T_OK, E_1, ID_3, F_M40_TAIL, F_40P0, F_100P0, F_2P5>>)

\* temperature is the double next above 100.0
EDGE_NEXT_ABOVE == Line(<<D_OK, T_OK, E_1, ID_3, F_100_NEXT, F_40P0, F_100P0, F_2P5>>)

\* temperature is inf
EDGE_OVERFLOW == Line(<<D_OK, T_OK, E_1, ID_3, F_HUGE, F_40P0, F_100P0, F_2P5>>)

\* digits of other scripts where int(), float() and \d take them
EDGE_SCRIPTS ==
    Line(<<D_FULLWIDTH_YEAR, T_ARABIC_MINUTE, E_1, ID_FULLWIDTH_3,
           F_ARABIC_3P5, F_1_0P5, F_100P0, F_2P5>>)

\* a digit of another script where the pattern has an ASCII class
EDGE_MONTH == Line(<<D_FULLWIDTH_MONTH, T_OK, E_1, ID_3, F_22P5, F_40P0, F_100P0, F_2P5>>)

EDGE_FRACTION == Line(<<D_OK, T_FULLWIDTH_FRAC, E_1, ID_3, F_22P5, F_40P0, F_100P0, F_2P5>>)

\* the longest moteid int() converts, and one digit more
EDGE_LONG_ID == Line(<<D_OK, T_OK, E_1, ID_4300, F_22P5, F_40P0, F_100P0, F_2P5>>)

EDGE_LONGER_ID == Line(<<D_OK, T_OK, E_1, ID_4301, F_22P5, F_40P0, F_100P0, F_2P5>>)

\* the tokens of L_A between whitespace other than blank and tab
EDGE_SPACES ==
    <<"\f">> \o D_OK \o <<"U+00A0">> \o T_OK \o <<"U+000B", "U+2003">> \o E_1
      \o <<"U+001C">> \o ID_3 \o <<"U+0085">> \o F_22P5 \o <<"U+3000">>
      \o F_40P0 \o <<"U+001F">> \o F_100P0 \o <<"U+2028">> \o F_2P5
      \o <<"U+1680", "\n">>

\* the zero width space is no whitespace: date and time are one token
EDGE_NO_SPACE ==
    D_OK \o <<"U+200B">> \o T_OK \o <<" ">>
      \o Line(<<E_1, ID_3, F_22P5, F_40P0, F_100P0, F_2P5>>)

EdgeLines ==
    {EDGE_ROUNDED, EDGE_ROUNDED_LOW, EDGE_NEXT_ABOVE, EDGE_OVERFLOW,
     EDGE_SCRIPTS, EDGE_MONTH, EDGE_FRACTION, EDGE_LONG_ID, EDGE_LONGER_ID,
     EDGE_SPACES, EDGE_NO_SPACE}

\* the lines the parser is examined on
ParserLines == GridLines \cup EdgeLines

\* the lines the files of the pipeline runs are made of
\* "date t e m t h l v"
L_HEADER == Line(<<D_HDR, <<"t">>, <<"e">>, <<"m">>, <<"t">>, <<"h">>, <<"l">>, <<"v">>>>)

\* "2004-03-01 10:00:00.123456 1 3 22.5 40.0 100.0 2.5"
L_A == Line(<<D_OK, T_OK, E_1, ID_3, F_22P5, F_40P0, F_100P0, F_2P5>>)

\* "2004-03-01 10:00:01.5 abc 4 -40 100 nan 2.5"
L_B == Line(<<D_OK, T_LATER, E_ABC, ID_4, F_M40, F_100, F_NAN, F_2P5>>)

\* "2004-03-01 10:00:00.123456 1 3 150.0 40.0 100.0 2.5"
L_HOT == Line(<<D_OK, T_OK, E_1, ID_3, F_150P0, F_40P0, F_100P0, F_2P5>>)

FileLines == {L_HEADER, L_A, L_B, L_HOT}

MaxLines == 4

RECURSIVE SeqsUpTo(_, _)
SeqsUpTo(S, n) ==
    IF n = 0 THEN {<<>>}
    ELSE LET shorter == SeqsUpTo(S, n - 1) IN
         shorter \cup { Append(q, x) : q \in { r \in shorter : Len(r) = n - 1 }, x \in S }

Files == SeqsUpTo(FileLines, MaxLines)

(***************************************************************************)
(* State                                                                   *)
(***************************************************************************)
VARIABLES
    pc,          \* where main is: see PcValues
    genpc,       \* where the generator process_intel_data is
    dbUp,        \* environment: the store accepts connections
    fileExists,  \* environment: /data/data.txt exists
    file,        \* environment: the lines of /data/data.txt
    engine,      \* main's engine: TRUE once wait_for_db has returned
    pos,         \* number of lines the generator has read
    data,        \* the generator's list  data
    chunk,       \* main's loop variable  chunk  (<<>> while unbound)
    idx,         \* main's loop variable  i  (enumerate index of chunk)
    tables,      \* the rows of the two destination tables
    created,     \* the destination tables that exist
    log,         \* standard output of the current run
    emitted,     \* history: the batches the generator has yielded this run
    ops,         \* history: the to_sql calls of this run, in call order
    base,        \* history: the rows the tables held when this run started
    runs,        \* history: the number of earlier, completed runs
    pline,       \* parser study: the line under examination
    pdone,       \* parser study: the line has been parsed
    pout         \* parser study: what the line appended to data

vars == <<pc, genpc, dbUp, fileExists, file, engine, pos, data, chunk, idx,
          tables, created, log, emitted, ops, base, runs,
          pline, pdone, pout>>

procVars == <<pc, genpc, engine, pos, data, chunk, idx, log, emitted, ops>>

PcValues ==
    {"start", "db_connect", "db_sleep", "file_check", "file_sleep", "next",
     "print_chunk", "write_ts", "write_pg", "print_loaded",
     "done", "failed", "killed"}

GatePcs == {"start", "db_connect", "db_sleep", "file_check", "file_sleep"}

TerminalPcs == {"done", "failed", "killed"}

\* the batch threshold of process_intel_data (100000 in the source), scaled
\* down so that files of a few lines fill several batches
BATCH_SIZE == 2

\* the store refuses at most this many connection attempts in a run, and the
\* file is found missing at most this many times
MaxDbFails == 1

MaxFileWaits == 1

\* the pipeline is run to completion at most this many times against the
\* same tables
MaxRuns == 2

TS == "sensor_data_timescale"

PG == "sensor_data_postgres"

Msg(m, n) == [msg |-> m, n |-> n]

RECURSIVE CountMsg(_, _)
CountMsg(l, m) ==
    IF l = <<>> THEN 0
    ELSE (IF l[1].msg = m THEN 1 ELSE 0) + CountMsg(Tail(l), m)

InitFrom(fs) ==
    /\ pc = "start"
    /\ genpc = "unstarted"
    /\ dbUp \in BOOLEAN
    /\ fileExists \in BOOLEAN
    /\ file \in fs
    /\ engine = FALSE
    /\ pos = 0
    /\ data = <<>>
    /\ chunk = <<>>
    /\ idx = 0
    /\ tables = [t \in {TS, PG} |-> <<>>]
    /\ created = {}
    /\ log = <<>>
    /\ emitted = <<>>
    /\ ops = <<>>
    /\ base = [t \in {TS, PG} |-> <<>>]
    /\ runs = 0
    /\ pline = <<>>
    /\ pdone = FALSE
    /\ pout = <<>>

Init == InitFrom(Files)

envVars == <<dbUp, fileExists, file>>

storeVars == <<tables, created>>

studyVars == <<pline, pdone, pout>>

runVars == <<base, runs>>

(***************************************************************************)
(* Environment                                                             *)
(***************************************************************************)
\* the store becomes reachable or unreachable while the gate is polling
DbChange ==
    /\ pc \in {"start", "db_connect", "db_sleep"}
    /\ dbUp' = ~dbUp
    /\ UNCHANGED <<fileExists, file, procVars, storeVars, runVars, studyVars>>

\* the data file is put in place while the gates are polling
FileAppears ==
    /\ pc \in GatePcs
    /\ ~fileExists
    /\ fileExists' = TRUE
    /\ UNCHANGED <<dbUp, file, procVars, storeVars, runVars, studyVars>>

\* variant: the process is stopped inside an append, whose rows are written
\* one by one; the first row stays in the table
Terminate_midAppend ==
    /\ pc \notin TerminalPcs
    /\ pc' = "killed"
    /\ tables' = IF pc = "write_ts"
                 THEN [tables EXCEPT ![TS] = @ \o SubSeq(chunk, 1, 1)]
                 ELSE tables
    /\ UNCHANGED <<genpc, engine, pos, data, chunk, idx, log, emitted, ops,
                   envVars, created, runVars, studyVars>>

\* the process is terminated from outside
Terminate ==
    /\ pc \notin TerminalPcs
    /\ pc' = "killed"
    /\ UNCHANGED <<genpc, engine, pos, data, chunk, idx, log, emitted, ops,
                   envVars, storeVars, runVars, studyVars>>

\* the pipeline has run to completion and is started again: a new process,
\* the same file and the same tables
Restart ==
    /\ pc = "done"
    /\ runs + 1 < MaxRuns
    /\ base' = tables
    /\ runs' = runs + 1
    /\ pc' = "start"
    /\ genpc' = "unstarted"
    /\ engine' = FALSE
    /\ pos' = 0
    /\ data' = <<>>
    /\ chunk' = <<>>
    /\ idx' = 0
    /\ log' = <<>>
    /\ emitted' = <<>>
    /\ ops' = <<>>
    /\ UNCHANGED <<envVars, storeVars, studyVars>>

(***************************************************************************)
(* main and wait_for_db                                                    *)
(***************************************************************************)
\* print("Waiting for database to be ready..."), then wait_for_db is entered
Start ==
    /\ pc = "start"
    /\ log' = Append(log, Msg("waiting_for_db_ready", 0))
    /\ pc' = "db_connect"
    /\ UNCHANGED <<genpc, engine, pos, data, chunk, idx, emitted, ops,
                   envVars, storeVars, runVars, studyVars>>

\* engine.connect() succeeds: the success message, return engine
DbConnectOk ==
    /\ pc = "db_connect"
    /\ dbUp
    /\ log' = Append(log, Msg("db_ok", 0))
    /\ engine' = TRUE
    /\ pc' = "file_check"
    /\ UNCHANGED <<genpc, pos, data, chunk, idx, emitted, ops,
                   envVars, storeVars, runVars, studyVars>>

\* variant: the except branch re-raises after printing
DbConnectFail_raise ==
    /\ pc = "db_connect"
    /\ ~dbUp
    /\ CountMsg(log, "db_wait") < MaxDbFails
    /\ log' = Append(log, Msg("db_wait", 0))
    /\ pc' = "failed"
    /\ UNCHANGED <<genpc, engine, pos, data, chunk, idx, emitted, ops,
                   envVars, storeVars, runVars, studyVars>>

\* engine.connect() raises: the except branch prints and goes to sleep
DbConnectFail ==
    /\ pc = "db_connect"
    /\ ~dbUp
    /\ CountMsg(log, "db_wait") < MaxDbFails
    /\ log' = Append(log, Msg("db_wait", 0))
    /\ pc' = "db_sleep"
    /\ UNCHANGED <<genpc, engine, pos, data, chunk, idx, emitted, ops,
                   envVars, storeVars, runVars, studyVars>>

\* variant: the loop gives up after the sleep instead of trying again
DbSleep_giveUp ==
    /\ pc = "db_sleep"
    /\ pc' = "failed"
    /\ UNCHANGED <<genpc, engine, pos, data, chunk, idx, log, emitted, ops,
                   envVars, storeVars, runVars, studyVars>>

\* time.sleep(5) returns, the while True loop tries again
DbSleep ==
    /\ pc = "db_sleep"
    /\ pc' = "db_connect"
    /\ UNCHANGED <<genpc, engine, pos, data, chunk, idx, log, emitted, ops,
                   envVars, storeVars, runVars, studyVars>>

\* os.path.exists is False: print and sleep
\* variant: the input-file gate does not wait, main goes on to the import
\* when the file is absent
FileMissing_proceed ==
    /\ pc = "file_check"
    /\ ~fileExists
    /\ log' = Append(log, Msg("starting_import", 0))
    /\ pc' = "next"
    /\ genpc' = "loop"
    /\ data' = <<>>
    /\ pos' = 0
    /\ UNCHANGED <<engine, chunk, idx, emitted, ops,
                   envVars, storeVars, runVars, studyVars>>

FileMissing ==
    /\ pc = "file_check"
    /\ ~fileExists
    /\ CountMsg(log, "file_wait") < MaxFileWaits
    /\ log' = Append(log, Msg("file_wait", 0))
    /\ pc' = "file_sleep"
    /\ UNCHANGED <<genpc, engine, pos, data, chunk, idx, emitted, ops,
                   envVars, storeVars, runVars, studyVars>>

FileSleep ==
    /\ pc = "file_sleep"
    /\ pc' = "file_check"
    /\ UNCHANGED <<genpc, engine, pos, data, chunk, idx, log, emitted, ops,
                   envVars, storeVars, runVars, studyVars>>

\* os.path.exists is True: print("Starting data import..."), the for loop
\* asks the generator for its first item; the generator sets data = []
FileFound ==
    /\ pc = "file_check"
    /\ fileExists
    /\ log' = Append(log, Msg("starting_import", 0))
    /\ pc' = "next"
    /\ genpc' = "loop"
    /\ data' = <<>>
    /\ pos' = 0
    /\ UNCHANGED <<engine, chunk, idx, emitted, ops,
                   envVars, storeVars, runVars, studyVars>>

(***************************************************************************)
(* process_intel_data (the generator) and the loader loop of main          *)
(***************************************************************************)
\* variant: the batch test is  len(data) > 100000
BatchFull_strict(d) == Len(d) > BATCH_SIZE

\* if len(data) >= 100000
BatchFull(d) == Len(d) >= BATCH_SIZE

\* variant: to_sql is called with if_exists='replace'
ToSql_replace(tbls, name, rows) == [tbls EXCEPT ![name] = rows]

\* DataFrame.to_sql(name, engine, if_exists='append', method='multi'):
\* the rows are added after the rows the table already has
ToSql(tbls, name, rows) == [tbls EXCEPT ![name] = @ \o rows]

\* the generator hands batch d to the for loop of main:
\* i, chunk = (number of batches yielded before, d)
Yield(d, at) ==
    /\ chunk' = d
    /\ idx' = Len(emitted)
    /\ emitted' = Append(emitted, d)
    /\ genpc' = at
    /\ pc' = "print_chunk"

\* variant: the try block has no except clause, a line that does not
\* convert ends the run with the exception
ReadLine_raise ==
    /\ pc = "next"
    /\ genpc = "loop"
    /\ pos < Len(file)
    /\ pos' = pos + 1
    /\ LET line == file[pos + 1]
           rec  == ParseLine(line)
           d    == data \o rec
       IN  /\ data' = d
           /\ IF rec # <<>> /\ BatchFull(d)
              THEN Yield(d, "yield_loop")
              ELSE /\ pc' = IF ~StartsWith(line, HeaderPrefix)
                                /\ ~Converts(Split(line))
                             THEN "failed" ELSE pc
                   /\ UNCHANGED <<genpc, chunk, idx, emitted>>
    /\ UNCHANGED <<engine, log, ops, envVars, storeVars, runVars, studyVars>>

\* one pass of  for line in f : a skipped line goes on to the next line
\* without reaching the batch test, an appended record reaches it
ReadLine ==
    /\ pc = "next"
    /\ genpc = "loop"
    /\ pos < Len(file)
    /\ pos' = pos + 1
    /\ LET rec == ParseLine(file[pos + 1])
           d   == data \o rec
       IN  /\ data' = d
           /\ IF rec # <<>> /\ BatchFull(d)
              THEN Yield(d, "yield_loop")
              ELSE UNCHANGED <<pc, genpc, chunk, idx, emitted>>
    /\ UNCHANGED <<engine, log, ops, envVars, storeVars, runVars, studyVars>>

\* variant: the final yield is not guarded by  if data
EndOfFile_always ==
    /\ pc = "next"
    /\ genpc = "loop"
    /\ pos = Len(file)
    /\ Yield(data, "yield_final")
    /\ UNCHANGED <<engine, pos, data, log, ops,
                   envVars, storeVars, runVars, studyVars>>

\* the file is exhausted:  if data: yield pd.DataFrame(data) , else the
\* generator returns and the for loop of main ends
EndOfFile ==
    /\ pc = "next"
    /\ genpc = "loop"
    /\ pos = Len(file)
    /\ IF data # <<>>
       THEN Yield(data, "yield_final")
       ELSE /\ genpc' = "finished"
            /\ pc' = "done"
            /\ UNCHANGED <<chunk, idx, emitted>>
    /\ UNCHANGED <<engine, pos, data, log, ops,
                   envVars, storeVars, runVars, studyVars>>

\* variant: the generator does not reset data after the yield
Resume_keep ==
    /\ pc = "next"
    /\ genpc = "yield_loop"
    /\ genpc' = "loop"
    /\ UNCHANGED <<pc, engine, pos, data, chunk, idx, log, emitted, ops,
                   envVars, storeVars, runVars, studyVars>>

\* the for loop asks for the next item and the generator continues after
\* the yield inside the loop:  data = []
Resume ==
    /\ pc = "next"
    /\ genpc = "yield_loop"
    /\ data' = <<>>
    /\ genpc' = "loop"
    /\ UNCHANGED <<pc, engine, pos, chunk, idx, log, emitted, ops,
                   envVars, storeVars, runVars, studyVars>>

\* the generator continues after the final yield and returns
GenReturn ==
    /\ pc = "next"
    /\ genpc = "yield_final"
    /\ genpc' = "finished"
    /\ pc' = "done"
    /\ UNCHANGED <<engine, pos, data, chunk, idx, log, emitted, ops,
                   envVars, storeVars, runVars, studyVars>>

\* variant: the first to_sql call is missing
PrintChunk_skipFirst ==
    /\ pc = "print_chunk"
    /\ log' = Append(log, Msg("processing_chunk", idx + 1))
    /\ pc' = "write_pg"
    /\ UNCHANGED <<genpc, engine, pos, data, chunk, idx, emitted, ops,
                   envVars, storeVars, runVars, studyVars>>

\* print(f"Processing chunk {i+1}")
PrintChunk ==
    /\ pc = "print_chunk"
    /\ log' = Append(log, Msg("processing_chunk", idx + 1))
    /\ pc' = "write_ts"
    /\ UNCHANGED <<genpc, engine, pos, data, chunk, idx, emitted, ops,
                   envVars, storeVars, runVars, studyVars>>

\* variant: the loop goes on to the next batch after the first to_sql call
WriteTimescaleOk_skipSecond ==
    /\ pc = "write_ts"
    /\ tables' = ToSql(tables, TS, chunk)
    /\ created' = created \cup {TS}
    /\ ops' = Append(ops, [table |-> TS, rows |-> chunk, ok |-> TRUE])
    /\ pc' = "next"
    /\ UNCHANGED <<genpc, engine, pos, data, chunk, idx, log, emitted,
                   envVars, runVars, studyVars>>

\* chunk.to_sql('sensor_data_timescale', ...) returns
WriteTimescaleOk ==
    /\ pc = "write_ts"
    /\ tables' = ToSql(tables, TS, chunk)
    /\ created' = created \cup {TS}
    /\ ops' = Append(ops, [table |-> TS, rows |-> chunk, ok |-> TRUE])
    /\ pc' = "write_pg"
    /\ UNCHANGED <<genpc, engine, pos, data, chunk, idx, log, emitted,
                   envVars, runVars, studyVars>>

\* variant: the failure of the first append is caught and the loop body
\* goes on to the second append
WriteTimescaleFail_swallow ==
    /\ pc = "write_ts"
    /\ ops' = Append(ops, [table |-> TS, rows |-> chunk, ok |-> FALSE])
    /\ pc' = "write_pg"
    /\ UNCHANGED <<genpc, engine, pos, data, chunk, idx, log, emitted,
                   envVars, storeVars, runVars, studyVars>>

\* chunk.to_sql('sensor_data_timescale', ...) raises: nothing catches it
WriteTimescaleFail ==
    /\ pc = "write_ts"
    /\ ops' = Append(ops, [table |-> TS, rows |-> chunk, ok |-> FALSE])
    /\ pc' = "failed"
    /\ UNCHANGED <<genpc, engine, pos, data, chunk, idx, log, emitted,
                   envVars, storeVars, runVars, studyVars>>

\* chunk.to_sql('sensor_data_postgres', ...) returns
WritePostgresOk ==
    /\ pc = "write_pg"
    /\ tables' = ToSql(tables, PG, chunk)
    /\ created' = created \cup {PG}
    /\ ops' = Append(ops, [table |-> PG, rows |-> chunk, ok |-> TRUE])
    /\ pc' = "print_loaded"
    /\ UNCHANGED <<genpc, engine, pos, data, chunk, idx, log, emitted,
                   envVars, runVars, studyVars>>

\* variant: both appends run in one transaction that the failure rolls back
WritePostgresFail_rollback ==
    /\ pc = "write_pg"
    /\ tables' = [tables EXCEPT
                    ![TS] = SubSeq(@, 1, Len(@) - Len(chunk))]
    /\ ops' = Append(ops, [table |-> PG, rows |-> chunk, ok |-> FALSE])
    /\ pc' = "failed"
    /\ UNCHANGED <<genpc, engine, pos, data, chunk, idx, log, emitted,
                   envVars, created, runVars, studyVars>>

\* chunk.to_sql('sensor_data_postgres', ...) raises: nothing catches it
WritePostgresFail ==
    /\ pc = "write_pg"
    /\ ops' = Append(ops, [table |-> PG, rows |-> chunk, ok |-> FALSE])
    /\ pc' = "failed"
    /\ UNCHANGED <<genpc, engine, pos, data, chunk, idx, log, emitted,
                   envVars, storeVars, runVars, studyVars>>

\* print(f"Loaded {len(chunk)} rows into both tables"), next iteration
PrintLoaded ==
    /\ pc = "print_loaded"
    /\ log' = Append(log, Msg("loaded", Len(chunk)))
    /\ pc' = "next"
    /\ UNCHANGED <<genpc, engine, pos, data, chunk, idx, emitted, ops,
                   envVars, storeVars, runVars, studyVars>>

Next ==
    \/ DbChange
    \/ FileAppears
    \/ Terminate
    \/ Restart
    \/ Start
    \/ DbConnectOk
    \/ DbConnectFail
    \/ DbSleep
    \/ FileMissing
    \/ FileSleep
    \/ FileFound
    \/ ReadLine
    \/ EndOfFile
    \/ Resume
    \/ GenReturn
    \/ PrintChunk
    \/ WriteTimescaleOk
    \/ WriteTimescaleFail
    \/ WritePostgresOk
    \/ WritePostgresFail
    \/ PrintLoaded

Spec == Init /\ [][Next]_vars

(***************************************************************************)
(* Parser study: ParseLine applied to one line drawn from ParserLines      *)
(***************************************************************************)
InitParse ==
    /\ pc = "start"
    /\ genpc = "unstarted"
    /\ dbUp = TRUE
    /\ fileExists = TRUE
    /\ file = <<>>
    /\ engine = FALSE
    /\ pos = 0
    /\ data = <<>>
    /\ chunk = <<>>
    /\ idx = 0
    /\ tables = [t \in {TS, PG} |-> <<>>]
    /\ created = {}
    /\ log = <<>>
    /\ emitted = <<>>
    /\ ops = <<>>
    /\ base = [t \in {TS, PG} |-> <<>>]
    /\ runs = 0
    /\ pline \in ParserLines
    /\ pdone = FALSE
    /\ pout = <<>>

ParseStep ==
    /\ ~pdone
    /\ pdone' = TRUE
    /\ pout' = ParseLine(pline)
    /\ UNCHANGED <<pline, procVars, envVars, storeVars, runVars>>

NextParse == ParseStep

SpecParse == InitParse /\ [][NextParse]_vars

(***************************************************************************)
(* Runs used for the liveness of the store gate: the retry loop of         *)
(* wait_for_db keeps taking steps (an attempt is made, a sleep returns)    *)
(* unless the process is terminated from outside                           *)
(***************************************************************************)
GateStep ==
    \/ Start
    \/ DbConnectOk
    \/ DbConnectFail
    \/ DbSleep

\* an empty file, a file of BATCH_SIZE + 1 valid lines, a file of dropped
\* lines only, and a mixed file
LiveFiles ==
    { <<>>,
      [i \in 1..(BATCH_SIZE + 1) |-> L_A],
      <<L_HEADER, L_HOT>>,
      <<L_HEADER, L_A, L_HOT, L_B>> }

InitLive == InitFrom(LiveFiles)

FairSpec == InitLive /\ [][Next]_vars /\ WF_vars(GateStep)

(***************************************************************************)
(* Runs over files in which one line of every dropped kind sits alone,     *)
(* doubled, and between valid lines of a batch, over the empty file and    *)
(* over a file of dropped lines only                                       *)
(***************************************************************************)
\* "2004-03-01 10:00:00.123456 1 3 22.5" : parts[5] raises IndexError
L_SHORT == Line(<<D_OK, T_OK, E_1, ID_3, F_22P5>>)

\* "2004-03-01 10:00:00.123456 1 3 22.5 40.0 100.0 x" : float raises ValueError
L_BADNUM == Line(<<D_OK, T_OK, E_1, ID_3, F_22P5, F_40P0, F_100P0, F_X>>)

\* "2004-02-30 10:00:00.123456 1 3 22.5 40.0 100.0 2.5" : strptime raises
L_BADTIME == Line(<<D_FEB30, T_OK, E_1, ID_3, F_22P5, F_40P0, F_100P0, F_2P5>>)

\* "2004-03-01 10:00:00.123456 1 3 22.5 101 100.0 2.5" : humidity above 100
L_WET == Line(<<D_OK, T_OK, E_1, ID_3, F_22P5, F_101, F_100P0, F_2P5>>)

\* "2004-03-01 10:00:00.123456 1 3 -41 40.0 100.0 2.5" : temperature below -40
L_COLD == Line(<<D_OK, T_OK, E_1, ID_3, F_M41, F_40P0, F_100P0, F_2P5>>)

\* "date 10:00:00.123456 1 3 22.5 40.0 100.0 2.5" : starts with  date , every
\* other field is that of a valid line
L_DATEROW == Line(<<D_HDR, T_OK, E_1, ID_3, F_22P5, F_40P0, F_100P0, F_2P5>>)

DroppedLines ==
    {L_HEADER, L_DATEROW, L_SHORT, L_BADNUM, L_BADTIME, L_HOT, L_COLD, L_WET}

\* k between the valid lines of a first batch, followed by valid lines that
\* leave a remainder of one
Around(k) == <<L_A, k, L_B>> \o [i \in 1..(BATCH_SIZE - 1) |-> L_A]

\* one line of every dropped kind, and no other line
AllDropped ==
    <<L_HEADER, L_SHORT, L_BADNUM, L_BADTIME, L_HOT, L_COLD, L_WET, L_DATEROW>>

LineStudyFiles ==
    { <<>>, AllDropped }
    \cup { <<k>> : k \in DroppedLines }
    \cup { <<k, k, L_A>> : k \in DroppedLines }
    \cup { Around(k) : k \in DroppedLines }

InitLines == InitFrom(LineStudyFiles)

SpecLines == InitLines /\ [][Next]_vars

(***************************************************************************)
(* Vocabulary of the properties                                            *)
(***************************************************************************)
\* the records of the lines of f that are kept, in line order
RECURSIVE ValidRecords(_)
ValidRecords(f) ==
    IF f = <<>> THEN <<>> ELSE ParseLine(f[1]) \o ValidRecords(Tail(f))

RECURSIVE Flatten(_)
Flatten(bs) == IF bs = <<>> THEN <<>> ELSE bs[1] \o Flatten(Tail(bs))

RECURSIVE Repeat(_, _)
Repeat(q, n) == IF n = 0 THEN <<>> ELSE q \o Repeat(q, n - 1)

Ceil(n, d) == (n + d - 1) \div d

Last(q) == q[Len(q)]

\* lo <= x <= hi as a statement about the number x
InRange(x, lo, hi) ==
    /\ x.kind = "num"
    /\ CmpNum(FloatOfInt(lo), x) <= 0
    /\ CmpNum(x, FloatOfInt(hi)) <= 0

AllOk(o) == \A i \in 1..Len(o) : o[i].ok

DbGatePcs == {"db_connect", "db_sleep"}

(***************************************************************************)
(* C1  Batching keeps every valid record exactly once and in order         *)
(***************************************************************************)
\* C1: when the generator has finished on a file with N > 0 valid records it
\* has yielded ceil(N / BATCH_SIZE) batches, none larger than BATCH_SIZE,
\* whose concatenation in yield order is the sequence of the valid records
\* of the file in line order, whatever dropped lines lie between them.
C1_BatchesPartitionValidRecords ==
    (genpc = "finished" /\ ValidRecords(file) # <<>>) =>
        /\ Len(emitted) = Ceil(Len(ValidRecords(file)), BATCH_SIZE)
        /\ \A i \in 1..Len(emitted) : Len(emitted[i]) <= BATCH_SIZE
        /\ Flatten(emitted) = ValidRecords(file)

\* a finished run over a file with a dropped line between two different
\* valid records and with more valid records than BATCH_SIZE - 1 (more than
\* one batch when BATCH_SIZE is 2)
C1_Witness ==
    /\ genpc = "finished"
    /\ Len(ValidRecords(file)) >= 3
    /\ Len(emitted) = Ceil(Len(ValidRecords(file)), BATCH_SIZE)
    /\ \E i, j, k \in 1..Len(file) :
          /\ i < j /\ j < k
          /\ ParseLine(file[i]) # <<>>
          /\ ParseLine(file[j]) = <<>>
          /\ ParseLine(file[k]) # <<>>
          /\ ParseLine(file[i]) # ParseLine(file[k])

(***************************************************************************)
(* C2  Range filter                                                        *)
(***************************************************************************)
\* C2: a line whose fields all convert yields a record if and only if
\* -40 <= temperature <= 100 and 0 <= humidity <= 100 (bounds included).
C2_RetainedIffInRange ==
    (pdone /\ Converts(Split(pline))) =>
        (pout # <<>> <=>
            /\ InRange(RecordOf(Split(pline)).temperature, TEMP_MIN, TEMP_MAX)
            /\ InRange(RecordOf(Split(pline)).humidity, HUM_MIN, HUM_MAX))

(***************************************************************************)
(* C3  Two appends per batch, in a fixed order                             *)
(***************************************************************************)
\* the k-th to_sql call of a run is made on  first  when k is odd and on
\* second  when k is even, with the rows of batch ceil(k / 2); a call on
\* second  follows a call on  first  that returned; once a batch has been
\* loaded there have been exactly two calls per yielded batch
AppendsInOrder(first, second) ==
    /\ \A k \in 1..Len(ops) :
          /\ ops[k].table = (IF k % 2 = 1 THEN first ELSE second)
          /\ Ceil(k, 2) <= Len(emitted)
          /\ ops[k].rows = emitted[Ceil(k, 2)]
          /\ (k % 2 = 0) => (ops[k - 1].ok /\ ops[k - 1].rows = ops[k].rows)
    /\ pc \in {"print_loaded", "next", "done"} =>
          (Len(ops) = 2 * Len(emitted) /\ AllOk(ops))

\* C3 as stated: every batch is appended exactly twice with the same rows,
\* first to the plain table sensor_data_postgres and then to the
\* time-partitioned table sensor_data_timescale.
C3_PlainTableFirst == AppendsInOrder(PG, TS)

\* C3 (amended): every batch is appended exactly twice with the same rows,
\* first to the time-partitioned table sensor_data_timescale and then, after
\* that call has returned, to the plain table sensor_data_postgres.
C3_TimescaleTableFirst == AppendsInOrder(TS, PG)

\* two batches have gone through both appends
C3_Witness ==
    /\ Len(ops) = 4
    /\ AllOk(ops)
    /\ pc = "print_loaded"
    /\ ops[1].rows # ops[3].rows

(***************************************************************************)
(* C4  A failing second append                                             *)
(***************************************************************************)
SecondAppendFailed ==
    /\ pc = "failed"
    /\ ops # <<>>
    /\ Len(ops) % 2 = 0
    /\ ~Last(ops).ok

\* C4: when the second append of a batch fails, the rows the first append
\* wrote for that batch stay in the first table, and from then on the run
\* makes no further append (no retry), reads no further line and changes
\* neither table: the only step left to the program is a new run.
C4_SecondFailureLeavesFirstWrite ==
    [][ /\ SecondAppendFailed' =>
             /\ tables'[ops'[Len(ops') - 1].table] =
                   base'[ops'[Len(ops') - 1].table] \o Flatten(emitted')
             /\ tables'[Last(ops').table] =
                   base'[Last(ops').table]
                      \o Flatten(SubSeq(emitted', 1, Len(emitted') - 1))
        /\ SecondAppendFailed =>
             \/ /\ pc' = "failed"
                /\ ops' = ops
                /\ pos' = pos
                /\ emitted' = emitted
                /\ tables' = tables
             \/ /\ runs' = runs + 1
                /\ tables' = tables
      ]_vars

\* the second append of the first batch failed while lines were still unread
C4_Witness ==
    /\ SecondAppendFailed
    /\ chunk # <<>>
    /\ pos < Len(file)
    /\ tables[TS] # tables[PG]

(***************************************************************************)
(* C5  The store gate never fails and never gives up                       *)
(***************************************************************************)
\* C5: inside wait_for_db a failed attempt is followed by the waiting
\* message, the sleep and another attempt; the gate is left only by a
\* successful attempt (or by termination from outside), never by an error;
\* and as long as no attempt has succeeded nothing later has happened: no
\* line read, no batch, no append.
C5_GateOnlyReturnsConnected ==
    [][ /\ (pc = "db_connect" /\ pc' # pc) =>
             \/ pc' = "killed"
             \/ /\ ~dbUp
                /\ pc' = "db_sleep"
                /\ log' = Append(log, Msg("db_wait", 0))
                /\ ~engine'
             \/ /\ dbUp
                /\ pc' = "file_check"
                /\ engine'
        /\ (pc = "db_sleep" /\ pc' # pc) => pc' \in {"db_connect", "killed"}
        /\ (pc \in DbGatePcs /\ ~dbUp) => pc' \in DbGatePcs \cup {"killed"}
        /\ ~engine' =>
             /\ pc' \in {"start", "killed"} \cup DbGatePcs
             /\ pos' = 0
             /\ emitted' = <<>>
             /\ ops' = <<>>
             /\ tables' = base'
      ]_vars

\* back at the connection attempt after a refused attempt, store still down
C5_Witness ==
    /\ pc = "db_connect"
    /\ ~dbUp
    /\ CountMsg(log, "db_wait") >= 1
    /\ ~engine

(***************************************************************************)
(* C6  The store gate returns once the store stays reachable               *)
(***************************************************************************)
\* the success message is in the log once if the gate has returned and not
\* at all otherwise, and no waiting message comes after it
SuccessLoggedOnce ==
    /\ CountMsg(log, "db_ok") = (IF engine THEN 1 ELSE 0)
    /\ \A i, j \in 1..Len(log) :
          (log[i].msg = "db_ok" /\ log[j].msg = "db_wait") => j < i

\* C6: if the store becomes reachable and stays reachable, a process that is
\* in wait_for_db gets out of it with the engine (unless it is terminated
\* from outside); the success message is logged exactly once per run, after
\* every waiting message of the gate.
C6_GateEventuallyReturns ==
    /\ (<>[]dbUp) => ((pc \in DbGatePcs) ~> (engine \/ pc = "killed"))
    /\ []SuccessLoggedOnce

\* the gate has returned after at least one refused attempt
C6_Witness ==
    /\ engine
    /\ dbUp
    /\ CountMsg(log, "db_wait") >= 1
    /\ CountMsg(log, "db_ok") = 1

(***************************************************************************)
(* C7  Malformed lines                                                     *)
(***************************************************************************)
\* C7 as stated: a line with fewer than 8 tokens, or with a token that is
\* not a number in one of the data columns 2 .. 7, yields no record.
C7_AnyNonNumericFieldDrops ==
    LET parts == Split(pline) IN
    (pdone /\ (\/ Len(parts) < 8
               \/ \E i \in 3..8 : ~ParseFloat(parts[i]).ok)) => pout = <<>>

\* C7 (amended): a line with fewer than 8 tokens, or whose field 3 is not an
\* integer literal, or with a field among 4 .. 7 that is not a float
\* literal, yields no record (field 2 is never converted).
C7_UnconvertibleFieldDrops ==
    LET parts == Split(pline) IN
    (pdone /\ (\/ Len(parts) < 8
               \/ ~ParseInt(parts[4]).ok
               \/ \E i \in 5..8 : ~ParseFloat(parts[i]).ok)) => pout = <<>>

\* a full line, dropped, whose only defect is a voltage that is no number
C7_Witness ==
    LET parts == Split(pline) IN
    /\ pdone
    /\ pout = <<>>
    /\ Len(parts) = 8
    /\ ~StartsWith(pline, HeaderPrefix)
    /\ Strptime(parts[1], parts[2]).ok
    /\ ParseInt(parts[4]).ok
    /\ ParseFloat(parts[5]).ok /\ InRange(ParseFloat(parts[5]).v, TEMP_MIN, TEMP_MAX)
    /\ ParseFloat(parts[6]).ok /\ InRange(ParseFloat(parts[6]).v, HUM_MIN, HUM_MAX)
    /\ ParseFloat(parts[7]).ok
    /\ ~ParseFloat(parts[8]).ok

(***************************************************************************)
(* C8  Parsing and loading do not overlap                                  *)
(***************************************************************************)
\* a line is read only when every batch yielded so far has gone through
\* both appends
ReadsOnlyBetweenBatches ==
    [][ pos' > pos => (Len(ops) = 2 * Len(emitted) /\ AllOk(ops)) ]_vars

\* C8 as stated: no line is read before both appends of the previous batch
\* are complete, and the program never holds the records of more than one
\* batch (the list being filled, and the batch bound in main).
C8_OneBatchInMemory ==
    /\ ReadsOnlyBetweenBatches
    /\ [](data = <<>> \/ chunk = <<>> \/ data = chunk)

\* C8 (amended): no line is read before both appends of the previous batch
\* are complete; the list being filled never holds more than one batch, but
\* main's loop variable keeps the previous batch until the next one is
\* yielded, so the records of up to two consecutive batches are held.
C8_AtMostTwoBatchesInMemory ==
    /\ ReadsOnlyBetweenBatches
    /\ [](/\ Len(data) <= BATCH_SIZE
          /\ chunk # <<>> => (emitted # <<>> /\ chunk = Last(emitted))
          /\ genpc = "loop" => Len(data) < BATCH_SIZE
          /\ genpc \in {"yield_loop", "yield_final"} => data = chunk)

\* the second batch is being filled after the first has been loaded
C8_Witness ==
    /\ pc = "next"
    /\ genpc = "loop"
    /\ Len(emitted) = 1
    /\ Len(ops) = 2
    /\ data # <<>>
    /\ chunk # <<>>
    /\ data # chunk

(***************************************************************************)
(* C9  Batch sizes                                                         *)
(***************************************************************************)
\* C9: every yielded batch but the last has exactly BATCH_SIZE records and
\* the last is not empty; a batch is yielded in the very step in which the
\* list reaches BATCH_SIZE (so the list is shorter whenever the loop is
\* about to read), and the list is empty again when reading goes on.
C9_FullBatchesThenRemainder ==
    [][ /\ \A i \in 1..(Len(emitted') - 1) : Len(emitted'[i]) = BATCH_SIZE
        /\ emitted' # <<>> =>
             (Len(Last(emitted')) >= 1 /\ Len(Last(emitted')) <= BATCH_SIZE)
        /\ genpc' \in {"loop", "yield_loop"} =>
             \A i \in 1..Len(emitted') : Len(emitted'[i]) = BATCH_SIZE
        /\ genpc' = "loop" => Len(data') < BATCH_SIZE
        /\ (Len(data') = BATCH_SIZE /\ Len(data) < BATCH_SIZE) =>
             (emitted' = Append(emitted, data') /\ genpc' = "yield_loop")
        /\ (genpc = "yield_loop" /\ genpc' = "loop") => data' = <<>>
      ]_vars

\* a finished run that yielded a full batch and then a smaller last batch
C9_Witness ==
    /\ genpc = "finished"
    /\ Len(emitted) = 2
    /\ Len(emitted[1]) = BATCH_SIZE
    /\ Len(emitted[2]) < BATCH_SIZE

(***************************************************************************)
(* C10  Running again duplicates the rows                                  *)
(***************************************************************************)
\* C10: when the pipeline has run to completion n times against the same
\* file and the same tables (n = 2 in particular), each table holds the
\* valid records of the file n times over.
C10_RerunAppendsAgain ==
    pc = "done" =>
        \A t \in {TS, PG} : tables[t] = Repeat(ValidRecords(file), runs + 1)

\* the second complete run over a file with several valid records
C10_Witness ==
    /\ pc = "done"
    /\ runs = 1
    /\ Len(ValidRecords(file)) > BATCH_SIZE
    /\ Len(tables[PG]) = 2 * Len(ValidRecords(file))

(***************************************************************************)
(* C11: no line is read and no append is performed before both gates have  *)
(* passed.  The store gate returns first (the engine is bound and its      *)
(* success is logged before the first poll of the file), then every poll   *)
(* that finds the file absent logs one message and sleeps, a poll that     *)
(* finds it prints the start of the import; while the file is absent main  *)
(* stays in the gate, and every state of the gates has read nothing,       *)
(* emitted nothing and appended nothing                                    *)
(***************************************************************************)
FileGatePcs == {"file_check", "file_sleep"}

BothGatesPassed ==
    /\ engine
    /\ fileExists
    /\ CountMsg(log, "db_ok") = 1
    /\ CountMsg(log, "starting_import") = 1

NothingImported ==
    /\ pos = 0
    /\ data = <<>>
    /\ emitted = <<>>
    /\ ops = <<>>
    /\ tables = base

C11_NoImportBeforeBothGates ==
    [][ /\ pos' = pos + 1 => BothGatesPassed
        /\ Len(ops') > Len(ops) => BothGatesPassed
        /\ Len(emitted') > Len(emitted) => BothGatesPassed
        /\ pc \in GatePcs => NothingImported
        /\ pc \in {"start"} \cup DbGatePcs =>
               /\ CountMsg(log, "file_wait") = 0
               /\ CountMsg(log, "starting_import") = 0
        /\ pc \in FileGatePcs =>
               /\ engine
               /\ CountMsg(log, "db_ok") = 1
               /\ CountMsg(log, "starting_import") = 0
        /\ (pc = "file_check" /\ pc' # pc) =>
               \/ pc' = "killed" /\ log' = log
               \/ /\ ~fileExists
                  /\ pc' = "file_sleep"
                  /\ log' = Append(log, Msg("file_wait", 0))
               \/ /\ fileExists
                  /\ pc' = "next"
                  /\ log' = Append(log, Msg("starting_import", 0))
        /\ (pc = "file_sleep" /\ pc' # pc) =>
               /\ pc' \in {"file_check", "killed"}
               /\ log' = log
        /\ (pc \in FileGatePcs /\ ~fileExists') =>
               pc' \in FileGatePcs \cup {"killed"}
      ]_vars

\* the import has read a line after the store gate retried and the file
\* gate polled an absent file
C11_Witness ==
    /\ pos >= 1
    /\ pc = "next"
    /\ CountMsg(log, "db_wait") >= 1
    /\ CountMsg(log, "file_wait") >= 1
    /\ BothGatesPassed

(***************************************************************************)
(* C12: a line that is dropped, because a field is missing or does not     *)
(* convert or because temperature or humidity is out of range, is only     *)
(* skipped: the step that reads it leaves the accumulating batch as it     *)
(* was, emits no batch, hands nothing to the loader, raises nothing in     *)
(* main, and leaves the generator in its loop at the next line             *)
(***************************************************************************)
Malformed(line) == ~Converts(Split(line))

OutOfRange(line) ==
    /\ Converts(Split(line))
    /\ \/ TempOutOfRange(RecordOf(Split(line)).temperature)
       \/ HumOutOfRange(RecordOf(Split(line)).humidity)

Dropped(line) == Malformed(line) \/ OutOfRange(line)

C12_DroppedLineOnlySkipped ==
    [][ (pos' = pos + 1 /\ Dropped(file[pos + 1])) =>
            /\ data' = data
            /\ emitted' = emitted
            /\ chunk' = chunk
            /\ idx' = idx
            /\ pc = "next" /\ pc' = "next"
            /\ genpc = "loop" /\ genpc' = "loop"
            /\ log' = log
            /\ ops' = ops
            /\ tables' = tables
            /\ created' = created
      ]_vars

\* a line that raised inside the try block has just been skipped while a
\* record was waiting in the batch, which is still there
C12_Witness ==
    /\ pc = "next"
    /\ genpc = "loop"
    /\ pos >= 2
    /\ file[pos] \in {L_SHORT, L_BADNUM, L_BADTIME}
    /\ data = ParseLine(file[1])
    /\ data # <<>>
    /\ pos < Len(file)

(***************************************************************************)
(* C13: the record-count message of batch k is logged after both appends   *)
(* of batch k have returned and before the generator reads a line of       *)
(* batch k+1.  With k messages logged: k batches at least were emitted,    *)
(* the j-th message carries the length of batch j, the first 2k appends    *)
(* are the successful appends of batches 1..k to the two tables in turn,   *)
(* both tables hold batches 1..k after what they held when the run began,  *)
(* and the generator runs its loop only when every emitted batch has its   *)
(* message                                                                 *)
(***************************************************************************)
LoadedMsgs == SelectSeq(log, LAMBDA e : e.msg = "loaded")

HoldsBatches(t, k) ==
    LET want == base[t] \o Flatten(SubSeq(emitted, 1, k)) IN
    /\ Len(tables[t]) >= Len(want)
    /\ SubSeq(tables[t], 1, Len(want)) = want

C13_LoadedAfterBothAppends ==
    LET k == Len(LoadedMsgs) IN
    /\ k <= Len(emitted)
    /\ Len(emitted) <= k + 1
    /\ \A j \in 1..k : LoadedMsgs[j].n = Len(emitted[j])
    /\ Len(ops) >= 2 * k
    /\ \A j \in 1..k :
          /\ ops[2 * j - 1] = [table |-> TS, rows |-> emitted[j], ok |-> TRUE]
          /\ ops[2 * j] = [table |-> PG, rows |-> emitted[j], ok |-> TRUE]
    /\ HoldsBatches(TS, k)
    /\ HoldsBatches(PG, k)
    /\ TS \in created \/ k = 0
    /\ PG \in created \/ k = 0
    /\ genpc = "loop" => k = Len(emitted)
    /\ pc = "print_loaded" =>
          /\ Len(emitted) = k + 1
          /\ Len(ops) = 2 * (k + 1)
          /\ genpc \in {"yield_loop", "yield_final"}
          /\ data = emitted[k + 1]

\* the message of the second batch has been logged while the generator is
\* still suspended at the yield of that batch
C13_Witness ==
    /\ Len(LoadedMsgs) = 2
    /\ Len(emitted) = 2
    /\ pc = "next"
    /\ genpc \in {"yield_loop", "yield_final"}
    /\ HoldsBatches(TS, 2)
    /\ HoldsBatches(PG, 2)

(***************************************************************************)
(* C14: in every state of a run, also after the process was stopped or an  *)
(* append raised, each table holds what it held when the run began         *)
(* followed by the first n emitted batches, whole, for some n; the table   *)
(* written first (sensor_data_timescale) holds as many batches as the      *)
(* other or one more.  When main has returned both tables hold every valid *)
(* record of the file in line order                                        *)
(***************************************************************************)
HoldsExactly(t, n) == tables[t] = base[t] \o Flatten(SubSeq(emitted, 1, n))

C14_TablesHoldWholeBatchPrefixes ==
    /\ \E n \in 0..Len(emitted) :
          /\ HoldsExactly(PG, n)
          /\ \/ HoldsExactly(TS, n)
             \/ n < Len(emitted) /\ HoldsExactly(TS, n + 1)
    /\ pc = "done" =>
          /\ tables[TS] = base[TS] \o ValidRecords(file)
          /\ tables[PG] = base[PG] \o ValidRecords(file)
          /\ HoldsExactly(TS, Len(emitted))
          /\ HoldsExactly(PG, Len(emitted))

\* the process was stopped between the two appends of the second batch:
\* the first table holds two batches, the second one batch
C14_Witness ==
    /\ pc = "killed"
    /\ Len(emitted) = 2
    /\ HoldsExactly(TS, 2)
    /\ HoldsExactly(PG, 1)
    /\ tables[TS] # tables[PG]

(***************************************************************************)
(* C15: the skip test removes a header on the first line and changes the   *)
(* records of no other line.  A line that starts with  date  yields no     *)
(* record at any position, and would yield none without the test, since    *)
(* its first field is no date; the records emitted for a file are those of *)
(* a reader that skips a first line starting with  date  and sends every   *)
(* other line through the try block, and those of the file with the lines  *)
(* starting with  date  taken out                                          *)
(***************************************************************************)
IsHeaderLike(line) == StartsWith(line, HeaderPrefix)

RECURSIVE TryAll(_)
TryAll(f) == IF f = <<>> THEN <<>> ELSE TryBlock(f[1]) \o TryAll(Tail(f))

FirstLineSkipRecords(f) ==
    IF f # <<>> /\ IsHeaderLike(f[1]) THEN TryAll(Tail(f)) ELSE TryAll(f)

WithoutHeaderLike(f) == SelectSeq(f, LAMBDA l : ~IsHeaderLike(l))

C15_SkipTestOnlyRemovesHeader ==
    /\ \A i \in 1..Len(file) :
          IsHeaderLike(file[i]) =>
             /\ ParseLine(file[i]) = <<>>
             /\ TryBlock(file[i]) = <<>>
    /\ genpc = "finished" =>
          /\ Flatten(emitted) = FirstLineSkipRecords(file)
          /\ Flatten(emitted) = TryAll(WithoutHeaderLike(file))

\* a finished run over a file whose second line starts with  date  and is
\* otherwise a valid line: the records are those of the lines around it
C15_Witness ==
    /\ genpc = "finished"
    /\ pc = "done"
    /\ Len(file) >= 3
    /\ file[2] = L_DATEROW
    /\ ~IsHeaderLike(file[1])
    /\ Flatten(emitted) = TryAll(<<file[1]>> \o SubSeq(file, 3, Len(file)))
    /\ Len(Flatten(emitted)) = Len(file) - 1

(***************************************************************************)
(* C16: parts[2] and the tokens after parts[7] have no influence on what   *)
(* a line yields.  A parsed line of eight tokens or more yields what every *)
(* line yields that has the same tokens at indices 0, 1, 3, 4, 5, 6 and 7, *)
(* a numeric or a non-numeric token at index 2, and no, one or two tokens  *)
(* after index 7: the same record, or nothing for all of them              *)
(***************************************************************************)
\* the line with the tokens of parts at indices 0, 1, 3..7 (1, 2, 4..8 here),
\* e at index 2 and the tokens of extra after index 7
Variant(parts, e, extra) ==
    Join(<<parts[1], parts[2], e>> \o SubSeq(parts, 4, 8) \o extra)

C16_EpochAndExtraTokensIgnored ==
    (pdone /\ Len(Split(pline)) >= 8) =>
        \A e \in EpochTokens :
        \A extra \in {<<>>, <<X_EXTRA>>, <<F_X, E_1>>} :
            ParseLine(Variant(Split(pline), e, extra)) = pout

\* a line with a non-numeric token at index 2 and a ninth token has yielded
\* a record
C16_Witness ==
    /\ pdone
    /\ Len(Split(pline)) = 9
    /\ Split(pline)[3] = E_ABC
    /\ pout # <<>>
    /\ ParseLine(Variant(Split(pline), E_1, <<>>)) = pout

(***************************************************************************)
(* C17: on a file without a valid record (empty, a header only, or every   *)
(* line dropped) the generator emits no batch, the loop body of main never *)
(* runs: no append, no progress message, no table created or changed; and  *)
(* main, once past the gates, only reads on and returns when the file is   *)
(* exhausted, unless it is stopped from outside                            *)
(***************************************************************************)
NoValidRecord == \A i \in 1..Len(file) : Dropped(file[i])

LoaderIdle ==
    /\ emitted = <<>>
    /\ data = <<>>
    /\ ops = <<>>
    /\ created = {}
    /\ tables = [t \in {TS, PG} |-> <<>>]
    /\ CountMsg(log, "processing_chunk") = 0
    /\ CountMsg(log, "loaded") = 0
    /\ pc \in GatePcs \cup {"next", "done", "killed"}

C17_NoValidRecordNoAppend ==
    [][ NoValidRecord =>
          /\ LoaderIdle
          /\ LoaderIdle'
          /\ (pc = "next" /\ pos < Len(file) /\ pc' # "killed") =>
                 pc' = "next" /\ pos' = pos + 1
          /\ (pc = "next" /\ pos = Len(file) /\ pc' # "killed") =>
                 pc' = "done" /\ genpc' = "finished"
      ]_vars

\* main has returned after reading a file of several lines, all dropped
C17_Witness ==
    /\ pc = "done"
    /\ genpc = "finished"
    /\ file = AllDropped
    /\ pos = Len(file)
    /\ NoValidRecord
    /\ LoaderIdle
    /\ Last(log) = Msg("starting_import", 0)

====
